---- MODULE Spec2Model ----
(***************************************************************************)
(* open-planner: the HTTP API (Hono routes), its persistence helpers and   *)
(* the PostgreSQL stored procedures they call, as one state machine.       *)
(*                                                                         *)
(* Conventions                                                             *)
(*  - a DATE is the integer yyyymmdd, a month key is the DATE of its first *)
(*    day, NoDate (0) is SQL NULL in a DATE column;                        *)
(*  - JSON numbers are counted in halves (n = 2 * value), so that 3 is the *)
(*    non-integer 1.5 and Number.isInteger(x) is n % 2 = 0;                *)
(*  - a JSON / SQL value is a record [t, n, s]: t is its kind, n its       *)
(*    number (or the row id a uuid string names, or the DATE a date string *)
(*    spells), s its text;                                                 *)
(*  - a users row is identified with its clerk_user_id (the column is      *)
(*    UNIQUE), every other id is drawn from a per-table counter            *)
(*    (gen_random_uuid never repeats);                                     *)
(*  - created_at / updated_at are not modelled.                            *)
(***************************************************************************)
EXTENDS Integers, Sequences, FiniteSets, Bags, TLC

\* ------------------------------------------------------------------------
\* Bounds of the model
\* ------------------------------------------------------------------------
MaxItems == 2
MaxExpenses == 3
MaxRows == 1
MaxCategories == 1
MaxLoans == 2

\* ------------------------------------------------------------------------
\* Values
\* ------------------------------------------------------------------------
ClerkIds == {"A", "B"}
NoUser == "none"
NoDate == 0

JUndef == [t |-> "undef", n |-> 0, s |-> ""]
JNull == [t |-> "null", n |-> 0, s |-> ""]
JNum(n) == [t |-> "num", n |-> n, s |-> ""]
JText(s) == [t |-> "text", n |-> 0, s |-> s]
JUuid(n) == [t |-> "uuid", n |-> n, s |-> ""]
JDate(d) == [t |-> "date", n |-> d, s |-> ""]
JBool(b) == [t |-> "bool", n |-> IF b THEN 1 ELSE 0, s |-> ""]

\* JavaScript truthiness: undefined, null, 0, "" and false are falsy.
Falsy(v) == \/ v.t \in {"undef", "null"}
            \/ (v.t \in {"num", "bool"} /\ v.n = 0)
            \/ (v.t = "text" /\ v.s = "")
\* JavaScript `v || null`
OrNull(v) == IF Falsy(v) THEN JNull ELSE v
\* JavaScript `v !== undefined ? v : null`
DefinedOrNull(v) == IF v.t = "undef" THEN JNull ELSE v
\* SQL COALESCE(p, old) for a column whose values are stored as integers
Coalesce(p, old) == IF p.t = "null" THEN old ELSE p.n
\* SQL COALESCE(p, old) for a TEXT column (stored as a JSON value)
CoalesceText(p, old) == IF p.t = "null" THEN old ELSE p

\* ------------------------------------------------------------------------
\* Dates
\* ------------------------------------------------------------------------
YearOf(d) == d \div 10000
MonthOf(d) == (d \div 100) % 100
DaysInMonth(y, m) == IF m = 2 THEN (IF (y % 4 = 0 /\ y % 100 # 0) \/ y % 400 = 0 THEN 29 ELSE 28)
                     ELSE IF m \in {4, 6, 9, 11} THEN 30 ELSE 31
\* a yyyymmdd integer that names a day of the calendar
ValidDate(d) == /\ MonthOf(d) \in 1..12
                /\ (d % 100) >= 1
                /\ (d % 100) <= DaysInMonth(YearOf(d), MonthOf(d))
\* PostgreSQL MAKE_DATE: raises "date field value out of range" for a day
\* that the month does not have; DateError stands for the raised exception.
DateError == -1
MAKE_DATE(y, m, d) == IF m \in 1..12 /\ d >= 1 /\ d <= DaysInMonth(y, m)
                      THEN y * 10000 + m * 100 + d
                      ELSE DateError
\* (first + INTERVAL '1 month - 1 day')::DATE
LastOfMonth(first) == (first \div 100) * 100 + DaysInMonth(YearOf(first), MonthOf(first))

\* ------------------------------------------------------------------------
\* Error messages, as sequences of words; String.includes on word level
\* ------------------------------------------------------------------------
NoErr == << >>
MsgUserNotFound == <<"User", "not", "found">>
MsgCategoryNotFound == <<"Category", "not", "found", "or", "access", "denied">>
MsgNotNull == <<"null", "value", "violates", "not-null", "constraint">>
MsgCheck == <<"new", "row", "violates", "check", "constraint">>
MsgInvalidSyntax == <<"invalid", "input", "syntax", "for", "type">>
MsgDateRange == <<"date", "field", "value", "out", "of", "range">>

Includes(msg, words) == \E i \in 1..Len(msg) :
                          /\ i + Len(words) - 1 <= Len(msg)
                          /\ SubSeq(msg, i, i + Len(words) - 1) = words
\* the test every update / delete route applies to a caught error
IsNotFoundMsg(msg) == Includes(msg, <<"not", "found">>) \/ Includes(msg, <<"access", "denied">>)
\* `Failed to <verb> <thing>: ${error.message}` thrown by the helpers
Wrap(prefix, msg) == prefix \o msg

\* ------------------------------------------------------------------------
\* PostgREST argument coercion to the declared parameter types
\* ------------------------------------------------------------------------
OkUuid(v) == v.t \in {"null", "uuid"}
OkDecimal(v) == v.t \in {"null", "num"}
OkInteger(v) == v.t = "null" \/ (v.t = "num" /\ v.n % 2 = 0)
OkDate(v) == v.t = "null" \/ (v.t = "date" /\ ValidDate(v.n))
OkBool(v) == v.t \in {"null", "bool"}

\* ------------------------------------------------------------------------
\* Validation helpers (utils/validation.ts)
\* ------------------------------------------------------------------------
validateUUID(v) == v.t = "uuid"
validateDate(v) == v.t = "date" /\ ValidDate(v.n)
\* (the upper limit 999999999999.99 lies far above every amount used here)
validateAmount(v) == v.t = "num" /\ v.n > 0
validateInterestRate(v) == v.t = "num" /\ v.n >= 0 /\ v.n <= 2
validateTermMonths(v) == v.t = "num" /\ v.n > 0 /\ v.n % 2 = 0 /\ v.n <= 2 * 600
validateFutureDate(v) == validateDate(v)
validateBackdatedEntry(v) == validateDate(v)
validateDescription(v) == v.t \in {"undef", "null", "text"}

\* ------------------------------------------------------------------------
\* State
\* ------------------------------------------------------------------------
VARIABLES
  users,            \* clerk_user_id of every users row
  categories,       \* rows of table categories
  expenses,         \* rows of table expenses
  income,           \* rows of table income
  loans,            \* rows of table loans
  recurring_items,  \* rows of table recurring_items
  seq,              \* next fresh id of each table
  today,            \* CURRENT_DATE
  req,              \* the request handled last
  resp,             \* the response to it
  rpc,              \* the stored procedure it called and the error raised
  genLog,           \* history: expenses inserted per <<item id, month key>>
  txn               \* generate_recurring_expenses transactions in flight

tables == <<users, categories, expenses, income, loans, recurring_items>>
vars == <<users, categories, expenses, income, loans, recurring_items, seq,
          today, req, resp, rpc, genLog, txn>>

\* seed_default_categories_for_user: name, icon, color
DefaultCategories == <<
  <<"Food & Dining", "plate", "#EF4444">>,
  <<"Transportation", "car", "#3B82F6">>,
  <<"Shopping", "bags", "#8B5CF6">>,
  <<"Bills & Utilities", "bulb", "#F59E0B">>,
  <<"Entertainment", "clapper", "#EC4899">>,
  <<"Healthcare", "hospital", "#10B981">>,
  <<"Education", "books", "#6366F1">>,
  <<"Travel", "plane", "#06B6D4">>,
  <<"Personal Care", "nails", "#F97316">>,
  <<"Other", "box", "#6B7280">> >>

NoRpc == [fn |-> "none", err |-> NoErr]
Rpc(fn, err) == [fn |-> fn, err |-> err]
NoResp == [status |-> 0, error |-> NoErr, details |-> NoErr, rows |-> {},
           gen |-> 0, skip |-> 0, made |-> {}, skipped |-> {}]
\* c.json({...}, status)
Reply(status, error, details, rows) ==
  [NoResp EXCEPT !.status = status, !.error = error, !.details = details, !.rows = rows]
Unauthorized == Reply(401, <<"Unauthorized">>, NoErr, {})

\* ------------------------------------------------------------------------
\* Authentication
\* ------------------------------------------------------------------------
\* the middleware without the verification of the token
clerkAuthMiddleware_NoVerify(authHeader) ==
  IF authHeader.scheme = "Bearer "
  THEN (IF authHeader.sub = "" THEN NoUser ELSE authHeader.sub)
  ELSE NoUser

\* the userId that clerkAuthMiddleware puts in the context (CLERK_SECRET_KEY is set)
clerkAuthMiddleware(authHeader) ==
  IF authHeader.scheme = "Bearer "
  THEN IF authHeader.verified
       THEN (IF authHeader.sub = "" THEN NoUser ELSE authHeader.sub)
       ELSE NoUser
  ELSE NoUser

\* The Authorization headers with which a request reaches its route as user u,
\* or as nobody: a header is absent, or a scheme followed by a token; `verified`
\* tells whether verifyToken accepts the token and `sub` is the subject of its
\* payload, "" when the payload has none.
Authorization(u) ==
  {h \in {[scheme |-> "absent", verified |-> FALSE, sub |-> ""],
          [scheme |-> "Basic ", verified |-> TRUE, sub |-> "A"],
          [scheme |-> "Bearer ", verified |-> FALSE, sub |-> "A"],
          [scheme |-> "Bearer ", verified |-> TRUE, sub |-> ""]} \cup
         {[scheme |-> "Bearer ", verified |-> TRUE, sub |-> x] : x \in ClerkIds} :
     clerkAuthMiddleware(h) = u}


Idle == [pc |-> "idle", req |-> [op |-> "none"], user |-> NoUser, key |-> NoDate,
         cursor |-> << >>, cur |-> 0, newExpense |-> {}, marked |-> {},
         gen |-> 0, skip |-> 0, skipped |-> {}]
TxnIds == {1, 2}

Init ==
  /\ users = {} /\ categories = {} /\ expenses = {} /\ income = {}
  /\ loans = {} /\ recurring_items = {}
  /\ seq = [category |-> 1, expense |-> 1, income |-> 1, loan |-> 1, item |-> 1]
  /\ today \in {20230110, 20230215}
  /\ req = [op |-> "none"] /\ resp = NoResp /\ rpc = NoRpc
  /\ genLog = << >>
  /\ txn = [t \in TxnIds |-> Idle]

\* ------------------------------------------------------------------------
\* Stored procedures: users and default categories
\* ------------------------------------------------------------------------
get_user_id_from_clerk(p_clerk_user_id) ==
  IF p_clerk_user_id \in users THEN p_clerk_user_id ELSE NoUser

\* INSERT ... ON CONFLICT (user_id, name) DO NOTHING of the ten defaults
seed_default_categories_for_user(p_user_id) ==
  LET fresh == {i \in 1..Len(DefaultCategories) :
                  ~ \E c \in categories : c.user_id = p_user_id /\ c.name = DefaultCategories[i][1]}
      rank(i) == Cardinality({j \in fresh : j < i})
  IN  [rows |-> categories \cup
                 {[id |-> seq.category + rank(i), user_id |-> p_user_id,
                   name |-> DefaultCategories[i][1], icon |-> DefaultCategories[i][2],
                   color |-> DefaultCategories[i][3], is_default |-> TRUE] : i \in fresh},
       next |-> seq.category + Cardinality(fresh)]

\* get_or_create_user without the seeding
get_or_create_user_NoSeed(p_clerk_user_id) ==
  [err |-> NoErr, users |-> users \cup {p_clerk_user_id}, categories |-> categories,
   next |-> seq.category]

\* get_or_create_user (003_seed_default_categories.sql replaces the first one)
get_or_create_user(p_clerk_user_id) ==
  IF p_clerk_user_id \in users
  THEN [err |-> NoErr, users |-> users, categories |-> categories, next |-> seq.category]
  ELSE LET s == seed_default_categories_for_user(p_clerk_user_id)
       IN  [err |-> NoErr, users |-> users \cup {p_clerk_user_id},
            categories |-> s.rows, next |-> s.next]

\* GET /api/me
GetMe(u) ==
  /\ \E h \in Authorization(u) : req' = [op |-> "me", user |-> u, auth |-> h]
  /\ IF u = NoUser
     THEN /\ resp' = Unauthorized /\ rpc' = NoRpc
          /\ UNCHANGED <<users, categories, seq>>
     ELSE LET r == get_or_create_user(u)
          IN  /\ rpc' = Rpc("get_or_create_user", r.err)
              /\ resp' = Reply(200, NoErr, NoErr, {u})
              /\ users' = r.users /\ categories' = r.categories
              /\ seq' = [seq EXCEPT !.category = r.next]
  /\ UNCHANGED <<expenses, income, loans, recurring_items, today, genLog, txn>>

\* ------------------------------------------------------------------------
\* Stored procedures: recurring_items
\* ------------------------------------------------------------------------
RECURSIVE SortById(_)
\* the rows of a set as a sequence, by ascending id
SortById(rows) ==
  IF rows = {} THEN << >>
  ELSE LET r == CHOOSE x \in rows : \A y \in rows : x.id <= y.id
       IN  <<r>> \o SortById(rows \ {r})

\* the category check without the owner
OwnsCategory_AnyUser(v_user_id, p_category_id) ==
  \E c \in categories : c.id = p_category_id.n /\ p_category_id.t = "uuid"

\* IF NOT EXISTS (SELECT 1 FROM categories WHERE id = p_category_id AND user_id = v_user_id)
OwnsCategory(v_user_id, p_category_id) ==
  \E c \in categories : c.id = p_category_id.n /\ c.user_id = v_user_id /\ p_category_id.t = "uuid"

\* SELECT * INTO v FROM recurring_items WHERE id = p AND user_id = v_user_id
OwnedItems(v_user_id, p_recurring_item_id) ==
  {r \in recurring_items : r.id = p_recurring_item_id.n /\ r.user_id = v_user_id}

get_recurring_items_for_user(p_clerk_user_id, p_active_only) ==
  LET v_user_id == get_user_id_from_clerk(p_clerk_user_id)
  IN  IF v_user_id = NoUser THEN [err |-> MsgUserNotFound, rows |-> {}]
      ELSE [err |-> NoErr,
            rows |-> {r \in recurring_items :
                        r.user_id = v_user_id /\ (~ p_active_only \/ r.is_active)}]

create_recurring_item(p_clerk_user_id, p_category_id, p_amount, p_description, p_day_of_month, p_start_date) ==
  LET v_user_id == get_user_id_from_clerk(p_clerk_user_id)
      row == [id |-> seq.item, user_id |-> v_user_id, category_id |-> p_category_id.n,
              amount |-> p_amount.n, description |-> p_description,
              day_of_month |-> p_day_of_month.n \div 2, start_date |-> p_start_date.n,
              last_generated_month |-> NoDate, is_active |-> TRUE]
  IN  IF ~ (OkUuid(p_category_id) /\ OkDecimal(p_amount) /\ OkInteger(p_day_of_month)
            /\ OkDate(p_start_date))
      THEN [err |-> MsgInvalidSyntax, rows |-> recurring_items]
      ELSE IF v_user_id = NoUser THEN [err |-> MsgUserNotFound, rows |-> recurring_items]
      ELSE IF ~ OwnsCategory(v_user_id, p_category_id)
      THEN [err |-> MsgCategoryNotFound, rows |-> recurring_items]
      ELSE IF "null" \in {p_amount.t, p_day_of_month.t, p_start_date.t}
      THEN [err |-> MsgNotNull, rows |-> recurring_items]
      ELSE IF ~ (row.amount > 0 /\ row.day_of_month >= 1 /\ row.day_of_month <= 31)
      THEN [err |-> MsgCheck, rows |-> recurring_items]
      ELSE [err |-> NoErr, rows |-> recurring_items \cup {row}]

update_recurring_item(p_clerk_user_id, p_recurring_item_id, p_category_id, p_amount, p_description, p_day_of_month, p_start_date, p_is_active) ==
  LET v_user_id == get_user_id_from_clerk(p_clerk_user_id)
      found == OwnedItems(v_user_id, p_recurring_item_id)
      Upd(r) == [r EXCEPT !.category_id = Coalesce(p_category_id, @),
                          !.amount = Coalesce(p_amount, @),
                          !.description = CoalesceText(p_description, @),
                          !.day_of_month = IF p_day_of_month.t = "null" THEN @
                                           ELSE p_day_of_month.n \div 2,
                          !.start_date = Coalesce(p_start_date, @),
                          !.is_active = IF p_is_active.t = "null" THEN @
                                        ELSE p_is_active.n = 1]
  IN  IF ~ (OkUuid(p_recurring_item_id) /\ OkUuid(p_category_id) /\ OkDecimal(p_amount)
            /\ OkInteger(p_day_of_month) /\ OkDate(p_start_date) /\ OkBool(p_is_active))
      THEN [err |-> MsgInvalidSyntax, rows |-> recurring_items]
      ELSE IF v_user_id = NoUser THEN [err |-> MsgUserNotFound, rows |-> recurring_items]
      ELSE IF found = {} THEN [err |-> (<<"Recurring", "item", "not", "found", "or", "access", "denied">>), rows |-> recurring_items]
      ELSE IF p_category_id.t # "null" /\ ~ OwnsCategory(v_user_id, p_category_id)
      THEN [err |-> MsgCategoryNotFound, rows |-> recurring_items]
      ELSE IF \E r \in found : ~ (Upd(r).amount > 0 /\ Upd(r).day_of_month >= 1
                                  /\ Upd(r).day_of_month <= 31)
      THEN [err |-> MsgCheck, rows |-> recurring_items]
      ELSE [err |-> NoErr,
            rows |-> {IF r \in found THEN Upd(r) ELSE r : r \in recurring_items}]

delete_recurring_item(p_clerk_user_id, p_recurring_item_id) ==
  LET v_user_id == get_user_id_from_clerk(p_clerk_user_id)
      found == OwnedItems(v_user_id, p_recurring_item_id)
  IN  IF ~ OkUuid(p_recurring_item_id) THEN [err |-> MsgInvalidSyntax, rows |-> recurring_items]
      ELSE IF v_user_id = NoUser THEN [err |-> MsgUserNotFound, rows |-> recurring_items]
      ELSE IF found = {} THEN [err |-> (<<"Recurring", "item", "not", "found", "or", "access", "denied">>), rows |-> recurring_items]
      ELSE [err |-> NoErr, rows |-> recurring_items \ found]

\* ------------------------------------------------------------------------
\* generate_recurring_expenses
\* ------------------------------------------------------------------------
\* the target month with each of p_year and p_month defaulted on its own
TargetFirst_PerParameter(p_year, p_month) ==
  MAKE_DATE(IF p_year.t = "null" THEN YearOf(today) ELSE p_year.n \div 2,
            IF p_month.t = "null" THEN MonthOf(today) ELSE p_month.n \div 2, 1)

\* the target month: the current one unless both p_year and p_month are given
TargetFirst(p_year, p_month) ==
  IF p_year.t = "null" \/ p_month.t = "null"
  THEN MAKE_DATE(YearOf(today), MonthOf(today), 1)
  ELSE MAKE_DATE(p_year.n \div 2, p_month.n \div 2, 1)

\* the loop without its start_date condition
EligibleItems_NoStartFilter(items, v_user_id, v_last_of_month) ==
  {r \in items : r.user_id = v_user_id /\ r.is_active}

\* the rows the FOR loop visits
EligibleItems(items, v_user_id, v_last_of_month) ==
  {r \in items : r.user_id = v_user_id /\ r.is_active /\ r.start_date <= v_last_of_month}

\* the marker compared with the last day of the month instead of its first
AlreadyGenerated_WrongKey(item, v_month_key) ==
  item.last_generated_month # NoDate /\ item.last_generated_month = LastOfMonth(v_month_key)

\* the check that the item was already generated for the month
AlreadyGenerated(item, v_month_key) ==
  item.last_generated_month # NoDate /\ ((item.last_generated_month \div 100) * 100 + 1) = v_month_key

\* LEAST(MAKE_DATE(y, m, day_of_month), v_last_of_month); DateError when MAKE_DATE raises
ExpenseDate(v_first_of_month, day_of_month) ==
  LET made == MAKE_DATE(YearOf(v_first_of_month), MonthOf(v_first_of_month), day_of_month)
  IN  IF made = DateError THEN DateError ELSE (IF made <= LastOfMonth(v_first_of_month) THEN made ELSE LastOfMonth(v_first_of_month))


\* the loop body that does not count an item already generated for the month
GenerateItem_SkipUncounted(st, item, v_user_id, v_first_of_month) ==
  LET v_expense_date == ExpenseDate(v_first_of_month, item.day_of_month)
      row == [id |-> st.next, user_id |-> v_user_id, category_id |-> item.category_id,
              amount |-> item.amount, description |-> (CoalesceText(item.description, JText("Recurring expense"))),
              date |-> v_expense_date]
  IN  IF st.err # NoErr \/ AlreadyGenerated(item, v_first_of_month) THEN st
      ELSE IF v_expense_date = DateError THEN [st EXCEPT !.err = MsgDateRange]
      ELSE [st EXCEPT
              !.expenses = @ \cup {row},
              !.items = {IF r.id = item.id
                         THEN [r EXCEPT !.last_generated_month = v_first_of_month]
                         ELSE r : r \in @},
              !.next = @ + 1,
              !.gen = @ + 1,
              !.made = @ \cup {[item |-> item.id, row |-> row]}]

\* one iteration of the loop body on the state st of the running call
GenerateItem(st, item, v_user_id, v_first_of_month) ==
  LET v_last_of_month == LastOfMonth(v_first_of_month)
      v_expense_date == ExpenseDate(v_first_of_month, item.day_of_month)
      row == [id |-> st.next, user_id |-> v_user_id, category_id |-> item.category_id,
              amount |-> item.amount, description |-> (CoalesceText(item.description, JText("Recurring expense"))),
              date |-> v_expense_date]
  IN  IF st.err # NoErr THEN st
      ELSE IF AlreadyGenerated(item, v_first_of_month)
      THEN [st EXCEPT !.skip = @ + 1, !.skipped = @ \cup {item.id}]
      ELSE IF v_expense_date = DateError THEN [st EXCEPT !.err = MsgDateRange]
      ELSE IF v_expense_date >= v_first_of_month /\ v_expense_date <= v_last_of_month
      THEN IF ~ \E c \in categories : c.id = item.category_id
           THEN [st EXCEPT !.err = (<<"update", "or", "delete", "violates", "foreign", "key", "constraint">>)]
           ELSE [st EXCEPT
                   !.expenses = @ \cup {row},
                   !.items = {IF r.id = item.id
                              THEN [r EXCEPT !.last_generated_month = v_first_of_month]
                              ELSE r : r \in @},
                   !.next = @ + 1,
                   !.gen = @ + 1,
                   !.made = @ \cup {[item |-> item.id, row |-> row]}]
      ELSE [st EXCEPT !.skip = @ + 1, !.skipped = @ \cup {item.id}]

RECURSIVE GenerateLoop(_, _, _, _)
GenerateLoop(st, todo, v_user_id, v_first_of_month) ==
  IF todo = << >> THEN st
  ELSE GenerateLoop(GenerateItem(st, Head(todo), v_user_id, v_first_of_month),
                    Tail(todo), v_user_id, v_first_of_month)

\* the procedure keeping what it wrote before an exception
generate_recurring_expenses_NoRollback(p_clerk_user_id, p_year, p_month) ==
  LET v_user_id == get_user_id_from_clerk(p_clerk_user_id)
      v_first_of_month == TargetFirst(p_year, p_month)
      st0 == [err |-> NoErr, expenses |-> expenses, items |-> recurring_items,
              next |-> seq.expense, gen |-> 0, skip |-> 0, made |-> {}, skipped |-> {}]
      rollback(e) == [st0 EXCEPT !.err = e]
      done == GenerateLoop(st0,
                SortById(EligibleItems(recurring_items, v_user_id, LastOfMonth(v_first_of_month))),
                v_user_id, v_first_of_month)
  IN  IF ~ (OkInteger(p_year) /\ OkInteger(p_month)) THEN rollback(MsgInvalidSyntax)
      ELSE IF v_user_id = NoUser THEN rollback(MsgUserNotFound)
      ELSE IF v_first_of_month = DateError THEN rollback(MsgDateRange)
      ELSE done

\* the whole procedure: one transaction, rolled back when an exception is raised
generate_recurring_expenses(p_clerk_user_id, p_year, p_month) ==
  LET v_user_id == get_user_id_from_clerk(p_clerk_user_id)
      v_first_of_month == TargetFirst(p_year, p_month)
      st0 == [err |-> NoErr, expenses |-> expenses, items |-> recurring_items,
              next |-> seq.expense, gen |-> 0, skip |-> 0, made |-> {}, skipped |-> {}]
      rollback(e) == [st0 EXCEPT !.err = e]
      done == GenerateLoop(st0,
                SortById(EligibleItems(recurring_items, v_user_id, LastOfMonth(v_first_of_month))),
                v_user_id, v_first_of_month)
  IN  IF ~ (OkInteger(p_year) /\ OkInteger(p_month)) THEN rollback(MsgInvalidSyntax)
      ELSE IF v_user_id = NoUser THEN rollback(MsgUserNotFound)
      ELSE IF v_first_of_month = DateError THEN rollback(MsgDateRange)
      ELSE IF done.err # NoErr THEN rollback(done.err)
      ELSE done

\* genLog after the inserts in made for the month key
Logged(log, made, key) ==
  LET new == {<<m.item, key>> : m \in made}
  IN  [k \in DOMAIN log \cup new |->
         (IF k \in DOMAIN log THEN log[k] ELSE 0) + (IF k \in new THEN 1 ELSE 0)]

\* ------------------------------------------------------------------------
\* Routes: /api/recurring-items
\* ------------------------------------------------------------------------
\* the error a helper throws: the procedure's, or the transport's when the
\* store cannot be reached
Thrown(up, err) == IF up THEN err ELSE <<"fetch", "failed">>

\* a catch block without the 404 mapping
NotFoundOr500_NoMapping(msg, notFound, failed) == Reply(500, failed, msg, {})

\* the catch block shared by the update and delete routes
NotFoundOr500(msg, notFound, failed) ==
  IF IsNotFoundMsg(msg) THEN Reply(404, notFound, NoErr, {})
  ELSE Reply(500, failed, msg, {})

\* recurringItemsRouter.get('/')
GetRecurringItems(u, activeOnly, up) ==
  /\ \E h \in Authorization(u) : req' = [op |-> "getRecurringItems", user |-> u, auth |-> h, activeOnly |-> activeOnly, up |-> up]
  /\ IF u = NoUser THEN resp' = Unauthorized /\ rpc' = NoRpc
     ELSE LET r == get_recurring_items_for_user(u, activeOnly)
              err == Thrown(up, r.err)
          IN  /\ rpc' = Rpc("get_recurring_items_for_user", err)
              /\ resp' = IF err = NoErr THEN Reply(200, NoErr, NoErr, r.rows)
                         ELSE Reply(500, <<"Failed", "to", "get", "recurring", "items">>,
                                    Wrap(<<"Failed", "to", "get", "recurring", "items:">>, err), {})
  /\ UNCHANGED <<tables, seq, today, genLog, txn>>

\* the 400 answers of recurringItemsRouter.post('/'); NoErr when the body passes
CreateRecurringItemInvalid(b) ==
  IF Falsy(b.category_id) THEN <<"Category", "ID", "is", "required">>
  ELSE IF ~ validateUUID(b.category_id) THEN <<"Invalid", "UUID", "format">>
  ELSE IF ~ validateAmount(b.amount) THEN <<"Amount", "is", "invalid">>
  ELSE IF b.day_of_month.t # "undef" /\ ~ (b.day_of_month.t = "num" /\ b.day_of_month.n >= 2 * 1 /\ b.day_of_month.n <= 2 * 31 /\ b.day_of_month.n % 2 = 0)
  THEN <<"Day", "of", "month", "must", "be", "between", "1", "and", "31">>
  ELSE IF ~ Falsy(b.start_date) /\ ~ validateFutureDate(b.start_date)
  THEN <<"Invalid", "date">>
  ELSE IF b.description.t # "undef" /\ ~ validateDescription(b.description)
  THEN <<"Description", "must", "be", "a", "string">>
  ELSE NoErr

\* recurringItemsRouter.post('/')
CreateRecurringItem(u, b, up) ==
  /\ seq.item <= MaxItems
  /\ \E h \in Authorization(u) : req' = [op |-> "createRecurringItem", user |-> u, auth |-> h, body |-> b, up |-> up]
  /\ IF u = NoUser
     THEN resp' = Unauthorized /\ rpc' = NoRpc /\ UNCHANGED <<recurring_items, seq>>
     ELSE IF CreateRecurringItemInvalid(b) # NoErr
     THEN /\ resp' = Reply(400, CreateRecurringItemInvalid(b), NoErr, {})
          /\ rpc' = NoRpc /\ UNCHANGED <<recurring_items, seq>>
     ELSE LET r == create_recurring_item(u, b.category_id, b.amount, OrNull(b.description),
                     IF Falsy(b.day_of_month) THEN JNum(2) ELSE b.day_of_month,
                     OrNull(b.start_date))
              err == Thrown(up, r.err)
              msg == Wrap(<<"Failed", "to", "create", "recurring", "item:">>, err)
          IN  /\ rpc' = Rpc("create_recurring_item", err)
              /\ recurring_items' = IF err = NoErr THEN r.rows ELSE recurring_items
              /\ seq' = IF err = NoErr THEN [seq EXCEPT !.item = @ + 1] ELSE seq
              /\ resp' = IF err = NoErr THEN Reply(201, NoErr, NoErr, r.rows \ recurring_items)
                         ELSE NotFoundOr500(msg, MsgCategoryNotFound,
                                <<"Failed", "to", "create", "recurring", "item">>)
  /\ UNCHANGED <<users, categories, expenses, income, loans, today, genLog, txn>>

\* the 400 answers of recurringItemsRouter.put('/:id'); NoErr when the body passes
\* JavaScript ToNumber in a relational comparison: null, false and "" are 0,
\* every other text used here is NaN (and NaN compares false with anything)
UpdateRecurringItemInvalid(b) ==
  LET IsNumber(v) == v.t \in {"num", "null", "bool"} \/ (v.t = "text" /\ v.s = "")
      ToNumber(v) == IF v.t = "bool" THEN 2 * v.n ELSE IF v.t = "num" THEN v.n ELSE 0
  IN  IF b.amount.t # "undef" /\ IsNumber(b.amount) /\ ToNumber(b.amount) <= 0
      THEN <<"Amount", "must", "be", "greater", "than", "0">>
      ELSE IF b.day_of_month.t # "undef" /\ IsNumber(b.day_of_month)
              /\ (ToNumber(b.day_of_month) < 2 * 1 \/ ToNumber(b.day_of_month) > 2 * 31)
      THEN <<"Day", "of", "month", "must", "be", "between", "1", "and", "31">>
      ELSE NoErr

\* recurringItemsRouter.put('/:id')
UpdateRecurringItem(u, id, b, up) ==
  /\ \E h \in Authorization(u) : req' = [op |-> "updateRecurringItem", user |-> u, auth |-> h, id |-> id, body |-> b, up |-> up]
  /\ IF u = NoUser
     THEN resp' = Unauthorized /\ rpc' = NoRpc /\ UNCHANGED recurring_items
     ELSE IF UpdateRecurringItemInvalid(b) # NoErr
     THEN /\ resp' = Reply(400, UpdateRecurringItemInvalid(b), NoErr, {})
          /\ rpc' = NoRpc /\ UNCHANGED recurring_items
     ELSE LET r == update_recurring_item(u, id, OrNull(b.category_id), OrNull(b.amount),
                     DefinedOrNull(b.description), OrNull(b.day_of_month),
                     OrNull(b.start_date), DefinedOrNull(b.is_active))
              err == Thrown(up, r.err)
              msg == Wrap(<<"Failed", "to", "update", "recurring", "item:">>, err)
          IN  /\ rpc' = Rpc("update_recurring_item", err)
              /\ recurring_items' = IF err = NoErr THEN r.rows ELSE recurring_items
              /\ resp' = IF err = NoErr
                         THEN Reply(200, NoErr, NoErr, {x \in r.rows : x.id = id.n})
                         ELSE NotFoundOr500(msg, (<<"Recurring", "item", "not", "found", "or", "access", "denied">>),
                                <<"Failed", "to", "update", "recurring", "item">>)
  /\ UNCHANGED <<users, categories, expenses, income, loans, seq, today, genLog, txn>>

\* recurringItemsRouter.delete('/:id')
DeleteRecurringItem(u, id, up) ==
  /\ \E h \in Authorization(u) : req' = [op |-> "deleteRecurringItem", user |-> u, auth |-> h, id |-> id, up |-> up]
  /\ IF u = NoUser
     THEN resp' = Unauthorized /\ rpc' = NoRpc /\ UNCHANGED recurring_items
     ELSE LET r == delete_recurring_item(u, id)
              err == Thrown(up, r.err)
              msg == Wrap(<<"Failed", "to", "delete", "recurring", "item:">>, err)
          IN  /\ rpc' = Rpc("delete_recurring_item", err)
              /\ recurring_items' = IF err = NoErr THEN r.rows ELSE recurring_items
              /\ resp' = IF err = NoErr THEN Reply(200, NoErr, NoErr, {})
                         ELSE NotFoundOr500(msg, (<<"Recurring", "item", "not", "found", "or", "access", "denied">>),
                                <<"Failed", "to", "delete", "recurring", "item">>)
  /\ UNCHANGED <<users, categories, expenses, income, loans, seq, today, genLog, txn>>

\* parseInt of a query parameter that is present; NaN is a text value
QueryInvalid(q, lo, hi) ==
  q.t # "undef" /\ (q.t # "num" \/ q.n < 2 * lo \/ q.n > 2 * hi)

\* recurringItemsRouter.post('/generate')
Generate(u, year, month, up) ==
  /\ \E h \in Authorization(u) : req' = [op |-> "generate", user |-> u, auth |-> h, year |-> year, month |-> month, up |-> up]
  /\ IF u = NoUser
     THEN resp' = Unauthorized /\ rpc' = NoRpc /\ UNCHANGED <<expenses, recurring_items, seq, genLog>>
     ELSE IF QueryInvalid(year, 2000, 2100)
     THEN /\ resp' = Reply(400, <<"Invalid", "year">>, NoErr, {})
          /\ rpc' = NoRpc /\ UNCHANGED <<expenses, recurring_items, seq, genLog>>
     ELSE IF QueryInvalid(month, 1, 12)
     THEN /\ resp' = Reply(400, <<"Invalid", "month">>, NoErr, {})
          /\ rpc' = NoRpc /\ UNCHANGED <<expenses, recurring_items, seq, genLog>>
     ELSE LET r == generate_recurring_expenses(u, OrNull(year), OrNull(month))
              err == Thrown(up, r.err)
              ok == err = NoErr
          IN  /\ r.next - 1 <= MaxExpenses
              /\ rpc' = Rpc("generate_recurring_expenses", err)
              \* the store is as the procedure left it, when the call reached it
              /\ expenses' = IF up THEN r.expenses ELSE expenses
              /\ recurring_items' = IF up THEN r.items ELSE recurring_items
              /\ seq' = IF up THEN [seq EXCEPT !.expense = r.next] ELSE seq
              /\ genLog' = IF up THEN Logged(genLog, r.made, TargetFirst(OrNull(year), OrNull(month)))
                           ELSE genLog
              /\ resp' = IF ok
                         THEN [Reply(200, NoErr, NoErr, {}) EXCEPT
                                 !.gen = r.gen, !.skip = r.skip,
                                 !.made = r.made, !.skipped = r.skipped]
                         ELSE Reply(500, <<"Failed", "to", "generate", "recurring", "expenses">>,
                                Wrap(<<"Failed", "to", "generate", "recurring", "expenses:">>, err), {})
  /\ UNCHANGED <<users, categories, income, loans, today, txn>>

\* ------------------------------------------------------------------------
\* Specification SpecGen: one user, recurring items and generation
\* ------------------------------------------------------------------------
\* the bodies of POST /api/recurring-items; the category is the user's first
GenBody(day, sd, d) == [category_id |-> JUuid(1), amount |-> JNum(20), description |-> d,
                        day_of_month |-> JNum(2 * day), start_date |-> JDate(sd)]
\* PUT /api/recurring-items/:id with only is_active: false
Deactivate == [category_id |-> JUndef, amount |-> JUndef, description |-> JUndef,
               day_of_month |-> JUndef, start_date |-> JUndef, is_active |-> JBool(FALSE)]

NextGen ==
  \/ GetMe("A")
  \/ \E b \in {GenBody(1, 20230105, JUndef), GenBody(15, 20230105, JText("rent")),
               GenBody(31, 20230105, JUndef), GenBody(15, 20230220, JText("rent")),
               GenBody(1, 20230401, JUndef)} : CreateRecurringItem("A", b, TRUE)
  \/ \E i \in 1..MaxItems : UpdateRecurringItem("A", JUuid(i), Deactivate, TRUE)
  \/ \E ym \in {<<JNum(2 * 2023), JNum(2 * 1)>>, <<JNum(2 * 2023), JNum(2 * 2)>>,
                <<JUndef, JUndef>>, <<JNum(2 * 2024), JUndef>>, <<JUndef, JNum(2 * 2)>>} :
       Generate("A", ym[1], ym[2], TRUE)

SpecGen == Init /\ [][NextGen]_vars

\* the month key a generate request targets
TargetKeyOf(r) == TargetFirst(OrNull(r.year), OrNull(r.month))
\* the request reached generate_recurring_expenses and the store answered
GenerateRan(r, c) == r.op = "generate" /\ r.up /\ c.fn = "generate_recurring_expenses"

\* C1: after any sequence of generate calls issued one after another, for
\* arbitrary target months in any order, no recurring item has more than one
\* expense materialized for any single calendar month.
C1_AtMostOnePerItemMonth == \A k \in DOMAIN genLog : genLog[k] <= 1

\* the ids of the items a generate response reports as generated
MadeItems(c) == {m.item : m \in c.made}
\* the last day of the month a generate request targets
TargetLast(r) == LastOfMonth(TargetKeyOf(r))
\* the days of the month a generate request targets
TargetDays(r) == DaysInMonth(YearOf(TargetKeyOf(r)), MonthOf(TargetKeyOf(r)))
\* item r is one the loop of the request must visit: the caller's, active, started
Visited(r, q) == r.user_id = q.user /\ r.is_active /\ r.start_date <= TargetLast(q)
\* item r carries the marker of the month the request targets
Marked(r, q) == r.last_generated_month # NoDate
                /\ (r.last_generated_month \div 100) = (TargetKeyOf(q) \div 100)

\* C3: a generate call that directly follows the same call (same user, year
\* and month) changes neither the expenses nor any recurring item, and when
\* the first call returned it returns too, with generated_count = 0 and every
\* item the first call generated counted as skipped.
C3_SecondGenerateIsNoOp ==
  [][(GenerateRan(req, rpc) /\ GenerateRan(req', rpc') /\ req' = req)
       => /\ expenses' = expenses
          /\ recurring_items' = recurring_items
          /\ resp.status = 200 =>
               /\ resp'.status = 200
               /\ resp'.gen = 0
               /\ MadeItems(resp) \subseteq resp'.skipped
               /\ resp'.skip = resp.gen + resp.skip]_vars

\* C3 witness: a generate call returned 0 generated and skipped an item that an
\* earlier call had generated for the same month.
C3_Witness ==
  /\ GenerateRan(req, rpc) /\ resp.status = 200 /\ resp.gen = 0
  /\ \E i \in resp.skipped : <<i, TargetKeyOf(req)>> \in DOMAIN genLog

\* C4: generation never fails on the day of the month, and every generated
\* expense is dated min(day_of_month, last day of the target month) of the
\* target month.
C4_DayClampedNeverFails ==
  GenerateRan(req, rpc) =>
    /\ rpc.err # MsgDateRange
    /\ \A m \in resp.made : \A r \in recurring_items :
         r.id = m.item =>
           m.row.date = TargetKeyOf(req) - 1 +
                        (IF r.day_of_month <= TargetDays(req) THEN r.day_of_month
                         ELSE TargetDays(req))

\* C5: when generating one item fails, every other item the call must visit
\* and can date still has its expense and its marker of the target month.
C5_FailureDoesNotAbortBatch ==
  (GenerateRan(req, rpc) /\ rpc.err = MsgDateRange) =>
    \A r \in recurring_items :
      (Visited(r, req) /\ r.day_of_month <= TargetDays(req)) => Marked(r, req)

\* C6: a generate call leaves every item of the caller that starts after the
\* last day of the target month as it is, neither generates nor counts it, and
\* fails on a date only because of an item that has started.
C6_LateStartSkipped ==
  [][GenerateRan(req', rpc') =>
       /\ \A r \in recurring_items :
            (r.user_id = req'.user /\ r.start_date > TargetLast(req')) =>
               /\ r \in recurring_items'
               /\ r.id \notin MadeItems(resp')
               /\ r.id \notin resp'.skipped
       /\ rpc'.err = MsgDateRange =>
            \E r \in recurring_items :
               Visited(r, req') /\ r.day_of_month > TargetDays(req')]_vars

\* C6 witness: a generate call returned while an active item of the caller
\* starts after the target month; the call generated another item.
C6_Witness ==
  /\ GenerateRan(req, rpc) /\ resp.status = 200 /\ resp.gen >= 1
  /\ \E r \in recurring_items :
       r.user_id = req.user /\ r.is_active /\ r.start_date > TargetLast(req)
       /\ r.last_generated_month = NoDate

\* C7: one generate call inserts, for every active started item of the caller
\* whose marker is not the target month, exactly one expense with the item's
\* category, amount and description ('Recurring expense' for none), sets the
\* item's marker to the first day of the target month, and returns their
\* number as generated_count.
C7_EveryDueItemGenerated ==
  [][(GenerateRan(req', rpc') /\ req'.user \in users) =>
       LET due == {r \in recurring_items : Visited(r, req') /\ ~ Marked(r, req')}
       IN  /\ resp'.status = 200
           /\ resp'.gen = Cardinality(due)
           /\ Cardinality(expenses' \ expenses) = Cardinality(due)
           /\ \A r \in due :
                /\ Cardinality({m \in resp'.made : m.item = r.id}) = 1
                /\ \A m \in resp'.made :
                     m.item = r.id =>
                       /\ m.row \in expenses' \ expenses
                       /\ m.row.category_id = r.category_id
                       /\ m.row.amount = r.amount
                       /\ m.row.description = (IF r.description.t = "null"
                                               THEN JText("Recurring expense")
                                               ELSE r.description)
                /\ \E n \in recurring_items' :
                     n.id = r.id /\ n.last_generated_month = TargetKeyOf(req')]_vars

\* ------------------------------------------------------------------------
\* generate_recurring_expenses statement by statement (READ COMMITTED)
\* ------------------------------------------------------------------------
\* Every call of the procedure is one transaction. The tables hold the
\* committed rows; the rows a transaction has inserted (newExpense) and the
\* items whose marker it has updated (marked) are invisible to the others
\* until it commits. The FOR query reads the committed rows once, when the
\* loop starts; the marker the loop body tests is the one of that result.
\* An UPDATE locks its row until the transaction ends, a second UPDATE of
\* the same row waits for the lock and then writes as well.


\* the route up to the start of the loop: authentication, the query
\* parameters, the user, the target month and the FOR query
GenerateBegin(t, u, year, month) ==
  LET q == [op |-> "generate", user |-> u, year |-> year, month |-> month, up |-> TRUE]
      v_user_id == get_user_id_from_clerk(u)
      v_first_of_month == TargetFirst(OrNull(year), OrNull(month))
      raised == IF ~ (OkInteger(OrNull(year)) /\ OkInteger(OrNull(month))) THEN MsgInvalidSyntax
                ELSE IF v_user_id = NoUser THEN MsgUserNotFound
                ELSE IF v_first_of_month = DateError THEN MsgDateRange
                ELSE NoErr
  IN  /\ txn[t].pc = "idle"
      /\ req' = q
      /\ IF u = NoUser THEN resp' = Unauthorized /\ rpc' = NoRpc /\ UNCHANGED txn
         ELSE IF QueryInvalid(year, 2000, 2100)
         THEN resp' = Reply(400, <<"Invalid", "year">>, NoErr, {}) /\ rpc' = NoRpc /\ UNCHANGED txn
         ELSE IF QueryInvalid(month, 1, 12)
         THEN resp' = Reply(400, <<"Invalid", "month">>, NoErr, {}) /\ rpc' = NoRpc /\ UNCHANGED txn
         ELSE IF raised # NoErr
         THEN /\ resp' = (Reply(500, <<"Failed", "to", "generate", "recurring", "expenses">>, Wrap(<<"Failed", "to", "generate", "recurring", "expenses:">>, raised), {}))
              /\ rpc' = Rpc("generate_recurring_expenses", raised)
              /\ UNCHANGED txn
         ELSE /\ txn' = [txn EXCEPT ![t] =
                   [Idle EXCEPT !.pc = "loop", !.req = q, !.user = v_user_id,
                                !.key = v_first_of_month, !.cur = 1,
                                !.cursor = SortById(EligibleItems(recurring_items, v_user_id,
                                                      LastOfMonth(v_first_of_month)))]]
              /\ UNCHANGED <<resp, rpc>>
      /\ UNCHANGED <<tables, seq, today, genLog>>

\* the loop body up to and including the INSERT, for the next row of the query
GenerateInsert(t) ==
  LET x == txn[t]
      item == x.cursor[x.cur]
      v_last_of_month == LastOfMonth(x.key)
      v_expense_date == ExpenseDate(x.key, item.day_of_month)
      row == [id |-> seq.expense, user_id |-> x.user, category_id |-> item.category_id,
              amount |-> item.amount, description |-> (CoalesceText(item.description, JText("Recurring expense"))),
              date |-> v_expense_date]
      raised == IF v_expense_date = DateError THEN MsgDateRange
                ELSE IF ~ \E c \in categories : c.id = item.category_id THEN (<<"update", "or", "delete", "violates", "foreign", "key", "constraint">>)
                ELSE NoErr
      skips == \/ AlreadyGenerated(item, x.key)
               \/ (v_expense_date # DateError
                   /\ ~ (v_expense_date >= x.key /\ v_expense_date <= v_last_of_month))
  IN  /\ x.pc = "loop" /\ x.cur <= Len(x.cursor)
      /\ IF skips
         THEN /\ txn' = [txn EXCEPT ![t].skip = @ + 1, ![t].skipped = @ \cup {item.id},
                                    ![t].cur = @ + 1]
              /\ UNCHANGED <<seq, req, resp, rpc>>
         ELSE IF raised # NoErr
         THEN \* the exception ends the transaction: its writes are rolled back
              /\ txn' = [txn EXCEPT ![t] = Idle]
              /\ req' = x.req
              /\ resp' = (Reply(500, <<"Failed", "to", "generate", "recurring", "expenses">>, Wrap(<<"Failed", "to", "generate", "recurring", "expenses:">>, raised), {}))
              /\ rpc' = Rpc("generate_recurring_expenses", raised)
              /\ UNCHANGED seq
         ELSE /\ seq.expense <= MaxExpenses
              /\ txn' = [txn EXCEPT ![t].newExpense = @ \cup {[item |-> item.id, row |-> row]},
                                    ![t].pc = "update"]
              /\ seq' = [seq EXCEPT !.expense = @ + 1]
              /\ UNCHANGED <<req, resp, rpc>>
      /\ UNCHANGED <<tables, today, genLog>>

\* UPDATE recurring_items SET last_generated_month = v_month_key WHERE id = ...
GenerateUpdate(t) ==
  LET x == txn[t]
      item == x.cursor[x.cur]
  IN  /\ x.pc = "update"
      /\ \A o \in TxnIds \ {t} : item.id \notin txn[o].marked
      /\ txn' = [txn EXCEPT ![t].marked = @ \cup {item.id}, ![t].gen = @ + 1,
                            ![t].cur = @ + 1, ![t].pc = "loop"]
      /\ UNCHANGED <<tables, seq, today, req, resp, rpc, genLog>>

\* RETURN QUERY after the last row; the transaction commits and the route answers
GenerateReturn(t) ==
  LET x == txn[t]
  IN  /\ x.pc = "loop" /\ x.cur > Len(x.cursor)
      /\ expenses' = expenses \cup {m.row : m \in x.newExpense}
      /\ recurring_items' = {IF r.id \in x.marked
                             THEN [r EXCEPT !.last_generated_month = x.key]
                             ELSE r : r \in recurring_items}
      /\ genLog' = Logged(genLog, x.newExpense, x.key)
      /\ txn' = [txn EXCEPT ![t] = Idle]
      /\ req' = x.req
      /\ rpc' = Rpc("generate_recurring_expenses", NoErr)
      /\ resp' = [Reply(200, NoErr, NoErr, {}) EXCEPT
                    !.gen = x.gen, !.skip = x.skip,
                    !.made = x.newExpense, !.skipped = x.skipped]
      /\ UNCHANGED <<users, categories, income, loans, seq, today>>

\* ------------------------------------------------------------------------
\* Specification SpecConc: one user, one target month, two concurrent calls
\* ------------------------------------------------------------------------
ConcKey == TargetFirst((JNum(2 * 2023)), (JNum(2 * 1)))

NextConc ==
  \/ GetMe("A")
  \/ \E b \in {GenBody(1, 20230105, JUndef), GenBody(31, 20230105, JText("rent")),
               GenBody(1, 20230401, JUndef)} : CreateRecurringItem("A", b, TRUE)
  \/ \E t \in TxnIds : GenerateBegin(t, "A", (JNum(2 * 2023)), (JNum(2 * 1)))
  \/ \E t \in TxnIds : GenerateInsert(t)
  \/ \E t \in TxnIds : GenerateUpdate(t)
  \/ \E t \in TxnIds : GenerateReturn(t)

SpecConc == Init /\ [][NextConc]_vars

\* C2: when generate calls for the same user and the same target month run
\* concurrently, then once they all have returned no recurring item has more
\* than one expense of that month.
C2_ConcurrentAtMostOnce ==
  (\A t \in TxnIds : txn[t].pc = "idle") =>
     \A r \in recurring_items :
        <<r.id, ConcKey>> \in DOMAIN genLog => genLog[<<r.id, ConcKey>>] <= 1

\* ------------------------------------------------------------------------
\* Stored procedures: categories
\* ------------------------------------------------------------------------
\* body.name?.trim(), String.prototype.trim on the texts used here
TrimJ(v) == IF v.t = "text" /\ v.s = " " THEN JText("") ELSE v
\* a TEXT argument as the column stores it ("" for NULL)
TextOf(p) == IF p.t = "null" THEN "" ELSE p.s

\* SELECT * INTO v FROM categories WHERE id = p AND user_id = v_user_id
OwnedCategories(v_user_id, p_category_id) ==
  {c \in categories : c.id = p_category_id.n /\ c.user_id = v_user_id}

\* no unique constraint
NameTaken_Never(rows, v_user_id, name, except) == FALSE

\* CONSTRAINT categories_user_name_unique UNIQUE (user_id, name)
NameTaken(rows, v_user_id, name, except) ==
  \E c \in rows : c.user_id = v_user_id /\ c.name = name /\ c.id # except

get_categories_for_user(p_clerk_user_id) ==
  LET v_user_id == get_user_id_from_clerk(p_clerk_user_id)
  IN  IF v_user_id = NoUser THEN [err |-> MsgUserNotFound, rows |-> {}]
      ELSE [err |-> NoErr, rows |-> {c \in categories : c.user_id = v_user_id}]

create_category(p_clerk_user_id, p_name, p_icon, p_color) ==
  LET v_user_id == get_user_id_from_clerk(p_clerk_user_id)
      row == [id |-> seq.category, user_id |-> v_user_id, name |-> TextOf(p_name),
              icon |-> TextOf(p_icon), color |-> TextOf(p_color), is_default |-> FALSE]
  IN  IF v_user_id = NoUser THEN [err |-> MsgUserNotFound, rows |-> categories]
      ELSE IF p_name.t = "null" THEN [err |-> MsgNotNull, rows |-> categories]
      ELSE IF NameTaken(categories, v_user_id, row.name, 0)
      THEN [err |-> (<<"duplicate", "key", "value", "violates", "unique", "constraint">>), rows |-> categories]
      ELSE [err |-> NoErr, rows |-> categories \cup {row}]

\* update_category without the is_default refusal
update_category_NoDefaultCheck(p_clerk_user_id, p_category_id, p_name, p_icon, p_color) ==
  LET v_user_id == get_user_id_from_clerk(p_clerk_user_id)
      found == OwnedCategories(v_user_id, p_category_id)
      Upd(c) == [c EXCEPT !.name = IF p_name.t = "null" THEN @ ELSE p_name.s,
                          !.icon = IF p_icon.t = "null" THEN @ ELSE p_icon.s,
                          !.color = IF p_color.t = "null" THEN @ ELSE p_color.s]
  IN  IF ~ OkUuid(p_category_id) THEN [err |-> MsgInvalidSyntax, rows |-> categories]
      ELSE IF v_user_id = NoUser THEN [err |-> MsgUserNotFound, rows |-> categories]
      ELSE IF found = {} THEN [err |-> MsgCategoryNotFound, rows |-> categories]
      ELSE IF \E c \in found : NameTaken(categories, v_user_id, Upd(c).name, c.id)
      THEN [err |-> (<<"duplicate", "key", "value", "violates", "unique", "constraint">>), rows |-> categories]
      ELSE [err |-> NoErr, rows |-> {IF c \in found THEN Upd(c) ELSE c : c \in categories}]

update_category(p_clerk_user_id, p_category_id, p_name, p_icon, p_color) ==
  LET v_user_id == get_user_id_from_clerk(p_clerk_user_id)
      found == OwnedCategories(v_user_id, p_category_id)
      Upd(c) == [c EXCEPT !.name = IF p_name.t = "null" THEN @ ELSE p_name.s,
                          !.icon = IF p_icon.t = "null" THEN @ ELSE p_icon.s,
                          !.color = IF p_color.t = "null" THEN @ ELSE p_color.s]
  IN  IF ~ OkUuid(p_category_id) THEN [err |-> MsgInvalidSyntax, rows |-> categories]
      ELSE IF v_user_id = NoUser THEN [err |-> MsgUserNotFound, rows |-> categories]
      ELSE IF found = {} THEN [err |-> MsgCategoryNotFound, rows |-> categories]
      ELSE IF \E c \in found : c.is_default
      THEN [err |-> (<<"Cannot", "update", "default", "category">>), rows |-> categories]
      ELSE IF \E c \in found : NameTaken(categories, v_user_id, Upd(c).name, c.id)
      THEN [err |-> (<<"duplicate", "key", "value", "violates", "unique", "constraint">>), rows |-> categories]
      ELSE [err |-> NoErr, rows |-> {IF c \in found THEN Upd(c) ELSE c : c \in categories}]

delete_category(p_clerk_user_id, p_category_id) ==
  LET v_user_id == get_user_id_from_clerk(p_clerk_user_id)
      found == OwnedCategories(v_user_id, p_category_id)
  IN  IF ~ OkUuid(p_category_id) THEN [err |-> MsgInvalidSyntax, rows |-> categories]
      ELSE IF v_user_id = NoUser THEN [err |-> MsgUserNotFound, rows |-> categories]
      ELSE IF found = {} THEN [err |-> MsgCategoryNotFound, rows |-> categories]
      ELSE IF \E c \in found : c.is_default
      THEN [err |-> (<<"Cannot", "delete", "default", "category">>), rows |-> categories]
      \* a row of expenses or recurring_items references it (ON DELETE RESTRICT)
      ELSE IF \/ \E e \in expenses : e.category_id = p_category_id.n
              \/ \E r \in recurring_items : r.category_id = p_category_id.n
      THEN [err |-> (<<"update", "or", "delete", "violates", "foreign", "key", "constraint">>), rows |-> categories]
      ELSE [err |-> NoErr, rows |-> categories \ found]

\* ------------------------------------------------------------------------
\* Routes: /api/categories
\* ------------------------------------------------------------------------
\* the catch block of the category update and delete routes
CategoryCatch(msg, refused, failed) ==
  IF IsNotFoundMsg(msg) THEN Reply(404, MsgCategoryNotFound, NoErr, {})
  ELSE IF Includes(msg, <<"default", "category">>) THEN Reply(403, refused, NoErr, {})
  ELSE Reply(500, failed, msg, {})

\* categoriesRouter.get('/')
GetCategories(u, up) ==
  /\ \E h \in Authorization(u) : req' = [op |-> "getCategories", user |-> u, auth |-> h, up |-> up]
  /\ IF u = NoUser THEN resp' = Unauthorized /\ rpc' = NoRpc
     ELSE LET r == get_categories_for_user(u)
              err == Thrown(up, r.err)
          IN  /\ rpc' = Rpc("get_categories_for_user", err)
              /\ resp' = IF err = NoErr THEN Reply(200, NoErr, NoErr, r.rows)
                         ELSE Reply(500, <<"Failed", "to", "get", "categories">>,
                                    Wrap(<<"Failed", "to", "get", "categories:">>, err), {})
  /\ UNCHANGED <<tables, seq, today, genLog, txn>>

\* categoriesRouter.post('/')
CreateCategory(u, b, up) ==
  /\ seq.category <= Len(DefaultCategories) * Cardinality(ClerkIds) + MaxCategories
  /\ \E h \in Authorization(u) : req' = [op |-> "createCategory", user |-> u, auth |-> h, body |-> b, up |-> up]
  /\ IF u = NoUser
     THEN resp' = Unauthorized /\ rpc' = NoRpc /\ UNCHANGED <<categories, seq>>
     ELSE IF Falsy(b.name) \/ TrimJ(b.name).s = ""
     THEN /\ resp' = Reply(400, <<"Category", "name", "is", "required">>, NoErr, {})
          /\ rpc' = NoRpc /\ UNCHANGED <<categories, seq>>
     ELSE LET r == create_category(u, TrimJ(b.name), OrNull(b.icon),
                     IF Falsy(b.color) THEN JText("#3B82F6") ELSE b.color)
              err == Thrown(up, r.err)
              msg == Wrap(<<"Failed", "to", "create", "category:">>, err)
          IN  /\ rpc' = Rpc("create_category", err)
              /\ categories' = IF err = NoErr THEN r.rows ELSE categories
              /\ seq' = IF err = NoErr THEN [seq EXCEPT !.category = @ + 1] ELSE seq
              /\ resp' = IF err = NoErr THEN Reply(201, NoErr, NoErr, r.rows \ categories)
                         ELSE IF Includes(msg, <<"unique">>) \/ Includes(msg, <<"duplicate">>)
                         THEN Reply(409, <<"Category", "with", "this", "name", "already", "exists">>,
                                    NoErr, {})
                         ELSE Reply(500, <<"Failed", "to", "create", "category">>, msg, {})
  /\ UNCHANGED <<users, expenses, income, loans, recurring_items, today, genLog, txn>>

\* categoriesRouter.put('/:id')
UpdateCategory(u, id, b, up) ==
  /\ \E h \in Authorization(u) : req' = [op |-> "updateCategory", user |-> u, auth |-> h, id |-> id, body |-> b, up |-> up]
  /\ IF u = NoUser
     THEN resp' = Unauthorized /\ rpc' = NoRpc /\ UNCHANGED categories
     ELSE IF b.name.t # "undef" /\ TrimJ(b.name).s = ""
     THEN /\ resp' = Reply(400, <<"Category", "name", "cannot", "be", "empty">>, NoErr, {})
          /\ rpc' = NoRpc /\ UNCHANGED categories
     ELSE LET r == update_category(u, id, OrNull(TrimJ(b.name)), DefinedOrNull(b.icon),
                                   OrNull(b.color))
              err == Thrown(up, r.err)
              msg == Wrap(<<"Failed", "to", "update", "category:">>, err)
          IN  /\ rpc' = Rpc("update_category", err)
              /\ categories' = IF err = NoErr THEN r.rows ELSE categories
              /\ resp' = IF err = NoErr
                         THEN Reply(200, NoErr, NoErr, {x \in r.rows : x.id = id.n})
                         ELSE CategoryCatch(msg, (<<"Cannot", "update", "default", "category">>),
                                <<"Failed", "to", "update", "category">>)
  /\ UNCHANGED <<users, expenses, income, loans, recurring_items, seq, today, genLog, txn>>

\* categoriesRouter.delete('/:id')
DeleteCategory(u, id, up) ==
  /\ \E h \in Authorization(u) : req' = [op |-> "deleteCategory", user |-> u, auth |-> h, id |-> id, up |-> up]
  /\ IF u = NoUser
     THEN resp' = Unauthorized /\ rpc' = NoRpc /\ UNCHANGED categories
     ELSE LET r == delete_category(u, id)
              err == Thrown(up, r.err)
              msg == Wrap(<<"Failed", "to", "delete", "category:">>, err)
          IN  /\ rpc' = Rpc("delete_category", err)
              /\ categories' = IF err = NoErr THEN r.rows ELSE categories
              /\ resp' = IF err = NoErr THEN Reply(200, NoErr, NoErr, {})
                         ELSE CategoryCatch(msg, (<<"Cannot", "delete", "default", "category">>),
                                <<"Failed", "to", "delete", "category">>)
  /\ UNCHANGED <<users, expenses, income, loans, recurring_items, seq, today, genLog, txn>>

\* ------------------------------------------------------------------------
\* Stored procedures: expenses
\* ------------------------------------------------------------------------
\* the lookup without its user_id condition
OwnedExpenses_AnyUser(v_user_id, p_expense_id) ==
  {e \in expenses : e.id = p_expense_id.n}

\* SELECT * INTO v FROM expenses WHERE id = p AND user_id = v_user_id
OwnedExpenses(v_user_id, p_expense_id) ==
  {e \in expenses : e.id = p_expense_id.n /\ e.user_id = v_user_id}

get_expenses_for_user(p_clerk_user_id, p_start_date, p_end_date) ==
  LET v_user_id == get_user_id_from_clerk(p_clerk_user_id)
  IN  IF ~ (OkDate(p_start_date) /\ OkDate(p_end_date)) THEN [err |-> MsgInvalidSyntax, rows |-> {}]
      ELSE IF v_user_id = NoUser THEN [err |-> MsgUserNotFound, rows |-> {}]
      ELSE [err |-> NoErr,
            rows |-> {e \in expenses : e.user_id = v_user_id
                                       /\ (p_start_date.t = "null" \/ e.date >= p_start_date.n)
                                       /\ (p_end_date.t = "null" \/ e.date <= p_end_date.n)}]

create_expense(p_clerk_user_id, p_category_id, p_amount, p_description, p_date) ==
  LET v_user_id == get_user_id_from_clerk(p_clerk_user_id)
      row == [id |-> seq.expense, user_id |-> v_user_id, category_id |-> p_category_id.n,
              amount |-> p_amount.n, description |-> p_description, date |-> p_date.n]
  IN  IF ~ (OkUuid(p_category_id) /\ OkDecimal(p_amount) /\ OkDate(p_date))
      THEN [err |-> MsgInvalidSyntax, rows |-> expenses]
      ELSE IF v_user_id = NoUser THEN [err |-> MsgUserNotFound, rows |-> expenses]
      ELSE IF ~ OwnsCategory(v_user_id, p_category_id)
      THEN [err |-> MsgCategoryNotFound, rows |-> expenses]
      ELSE IF "null" \in {p_amount.t, p_date.t} THEN [err |-> MsgNotNull, rows |-> expenses]
      ELSE IF ~ (row.amount > 0) THEN [err |-> MsgCheck, rows |-> expenses]
      ELSE [err |-> NoErr, rows |-> expenses \cup {row}]

update_expense(p_clerk_user_id, p_expense_id, p_category_id, p_amount, p_description, p_date) ==
  LET v_user_id == get_user_id_from_clerk(p_clerk_user_id)
      found == OwnedExpenses(v_user_id, p_expense_id)
      Upd(e) == [e EXCEPT !.category_id = Coalesce(p_category_id, @),
                          !.amount = Coalesce(p_amount, @),
                          !.description = CoalesceText(p_description, @),
                          !.date = Coalesce(p_date, @)]
  IN  IF ~ (OkUuid(p_expense_id) /\ OkUuid(p_category_id) /\ OkDecimal(p_amount) /\ OkDate(p_date))
      THEN [err |-> MsgInvalidSyntax, rows |-> expenses]
      ELSE IF v_user_id = NoUser THEN [err |-> MsgUserNotFound, rows |-> expenses]
      ELSE IF found = {} THEN [err |-> (<<"Expense", "not", "found", "or", "access", "denied">>), rows |-> expenses]
      ELSE IF p_category_id.t # "null" /\ ~ OwnsCategory(v_user_id, p_category_id)
      THEN [err |-> MsgCategoryNotFound, rows |-> expenses]
      ELSE IF \E e \in found : ~ (Upd(e).amount > 0) THEN [err |-> MsgCheck, rows |-> expenses]
      ELSE [err |-> NoErr, rows |-> {IF e \in found THEN Upd(e) ELSE e : e \in expenses}]

delete_expense(p_clerk_user_id, p_expense_id) ==
  LET v_user_id == get_user_id_from_clerk(p_clerk_user_id)
      found == OwnedExpenses(v_user_id, p_expense_id)
  IN  IF ~ OkUuid(p_expense_id) THEN [err |-> MsgInvalidSyntax, rows |-> expenses]
      ELSE IF v_user_id = NoUser THEN [err |-> MsgUserNotFound, rows |-> expenses]
      ELSE IF found = {} THEN [err |-> (<<"Expense", "not", "found", "or", "access", "denied">>), rows |-> expenses]
      ELSE [err |-> NoErr, rows |-> expenses \ found]

\* ------------------------------------------------------------------------
\* Routes: /api/expenses
\* ------------------------------------------------------------------------
\* expensesRouter.get('/')
GetExpenses(u, startDate, endDate, up) ==
  /\ \E h \in Authorization(u) : req' = [op |-> "getExpenses", user |-> u, auth |-> h, startDate |-> startDate, endDate |-> endDate,
             up |-> up]
  /\ IF u = NoUser THEN resp' = Unauthorized /\ rpc' = NoRpc
     ELSE LET r == get_expenses_for_user(u, OrNull(startDate), OrNull(endDate))
              err == Thrown(up, r.err)
          IN  /\ rpc' = Rpc("get_expenses_for_user", err)
              /\ resp' = IF err = NoErr THEN Reply(200, NoErr, NoErr, r.rows)
                         ELSE Reply(500, <<"Failed", "to", "get", "expenses">>,
                                    Wrap(<<"Failed", "to", "get", "expenses:">>, err), {})
  /\ UNCHANGED <<tables, seq, today, genLog, txn>>

\* the 400 answers of expensesRouter.post('/'); NoErr when the body passes
CreateExpenseInvalid(b) ==
  IF Falsy(b.category_id) THEN <<"Category", "ID", "is", "required">>
  ELSE IF ~ validateUUID(b.category_id) THEN <<"Invalid", "UUID", "format">>
  ELSE IF ~ validateAmount(b.amount) THEN <<"Amount", "is", "invalid">>
  ELSE IF ~ Falsy(b.date) /\ ~ validateBackdatedEntry(b.date) THEN <<"Invalid", "date">>
  ELSE IF ~ validateDescription(b.description) THEN <<"Description", "must", "be", "a", "string">>
  ELSE NoErr

\* expensesRouter.post('/')
CreateExpense(u, b, up) ==
  /\ seq.expense <= MaxExpenses
  /\ \E h \in Authorization(u) : req' = [op |-> "createExpense", user |-> u, auth |-> h, body |-> b, up |-> up]
  /\ IF u = NoUser
     THEN resp' = Unauthorized /\ rpc' = NoRpc /\ UNCHANGED <<expenses, seq>>
     ELSE IF CreateExpenseInvalid(b) # NoErr
     THEN /\ resp' = Reply(400, CreateExpenseInvalid(b), NoErr, {})
          /\ rpc' = NoRpc /\ UNCHANGED <<expenses, seq>>
     ELSE LET r == create_expense(u, b.category_id, b.amount, OrNull(b.description),
                                  OrNull(b.date))
              err == Thrown(up, r.err)
              msg == Wrap(<<"Failed", "to", "create", "expense:">>, err)
          IN  /\ rpc' = Rpc("create_expense", err)
              /\ expenses' = IF err = NoErr THEN r.rows ELSE expenses
              /\ seq' = IF err = NoErr THEN [seq EXCEPT !.expense = @ + 1] ELSE seq
              /\ resp' = IF err = NoErr THEN Reply(201, NoErr, NoErr, r.rows \ expenses)
                         ELSE NotFoundOr500(msg, MsgCategoryNotFound,
                                <<"Failed", "to", "create", "expense">>)
  /\ UNCHANGED <<users, categories, income, loans, recurring_items, today, genLog, txn>>

\* the 400 answers of expensesRouter.put('/:id'); NoErr when the request passes
UpdateExpenseInvalid(id, b) ==
  IF ~ validateUUID(id) THEN <<"Invalid", "UUID", "format">>
  ELSE IF b.amount.t # "undef" /\ ~ validateAmount(b.amount) THEN <<"Amount", "is", "invalid">>
  ELSE IF b.category_id.t # "undef" /\ ~ validateUUID(b.category_id)
  THEN <<"Invalid", "UUID", "format">>
  ELSE IF b.date.t # "undef" /\ ~ validateBackdatedEntry(b.date) THEN <<"Invalid", "date">>
  ELSE IF b.description.t # "undef" /\ ~ validateDescription(b.description)
  THEN <<"Description", "must", "be", "a", "string">>
  ELSE NoErr

\* expensesRouter.put('/:id')
UpdateExpense(u, id, b, up) ==
  /\ \E h \in Authorization(u) : req' = [op |-> "updateExpense", user |-> u, auth |-> h, id |-> id, body |-> b, up |-> up]
  /\ IF u = NoUser
     THEN resp' = Unauthorized /\ rpc' = NoRpc /\ UNCHANGED expenses
     ELSE IF UpdateExpenseInvalid(id, b) # NoErr
     THEN /\ resp' = Reply(400, UpdateExpenseInvalid(id, b), NoErr, {})
          /\ rpc' = NoRpc /\ UNCHANGED expenses
     ELSE LET r == update_expense(u, id, OrNull(b.category_id), OrNull(b.amount),
                                  DefinedOrNull(b.description), OrNull(b.date))
              err == Thrown(up, r.err)
              msg == Wrap(<<"Failed", "to", "update", "expense:">>, err)
          IN  /\ rpc' = Rpc("update_expense", err)
              /\ expenses' = IF err = NoErr THEN r.rows ELSE expenses
              /\ resp' = IF err = NoErr
                         THEN Reply(200, NoErr, NoErr, {x \in r.rows : x.id = id.n})
                         ELSE NotFoundOr500(msg, (<<"Expense", "not", "found", "or", "access", "denied">>),
                                <<"Failed", "to", "update", "expense">>)
  /\ UNCHANGED <<users, categories, income, loans, recurring_items, seq, today, genLog, txn>>

\* expensesRouter.delete('/:id')
DeleteExpense(u, id, up) ==
  /\ \E h \in Authorization(u) : req' = [op |-> "deleteExpense", user |-> u, auth |-> h, id |-> id, up |-> up]
  /\ IF u = NoUser
     THEN resp' = Unauthorized /\ rpc' = NoRpc /\ UNCHANGED expenses
     ELSE IF ~ validateUUID(id)
     THEN /\ resp' = Reply(400, <<"Invalid", "UUID", "format">>, NoErr, {})
          /\ rpc' = NoRpc /\ UNCHANGED expenses
     ELSE LET r == delete_expense(u, id)
              err == Thrown(up, r.err)
              msg == Wrap(<<"Failed", "to", "delete", "expense:">>, err)
          IN  /\ rpc' = Rpc("delete_expense", err)
              /\ expenses' = IF err = NoErr THEN r.rows ELSE expenses
              /\ resp' = IF err = NoErr THEN Reply(200, NoErr, NoErr, {})
                         ELSE NotFoundOr500(msg, (<<"Expense", "not", "found", "or", "access", "denied">>),
                                <<"Failed", "to", "delete", "expense">>)
  /\ UNCHANGED <<users, categories, income, loans, recurring_items, seq, today, genLog, txn>>

\* ------------------------------------------------------------------------
\* Stored procedures: income
\* ------------------------------------------------------------------------

get_income_for_user(p_clerk_user_id, p_start_date, p_end_date) ==
  LET v_user_id == get_user_id_from_clerk(p_clerk_user_id)
  IN  IF ~ (OkDate(p_start_date) /\ OkDate(p_end_date)) THEN [err |-> MsgInvalidSyntax, rows |-> {}]
      ELSE IF v_user_id = NoUser THEN [err |-> MsgUserNotFound, rows |-> {}]
      ELSE [err |-> NoErr,
            rows |-> {i \in income : i.user_id = v_user_id
                                     /\ (p_start_date.t = "null" \/ i.date >= p_start_date.n)
                                     /\ (p_end_date.t = "null" \/ i.date <= p_end_date.n)}]

create_income(p_clerk_user_id, p_amount, p_description, p_date, p_is_recurring) ==
  LET v_user_id == get_user_id_from_clerk(p_clerk_user_id)
      row == [id |-> seq.income, user_id |-> v_user_id, amount |-> p_amount.n,
              description |-> p_description, date |-> p_date.n,
              is_recurring |-> p_is_recurring.n = 1]
  IN  IF ~ (OkDecimal(p_amount) /\ OkDate(p_date) /\ OkBool(p_is_recurring))
      THEN [err |-> MsgInvalidSyntax, rows |-> income]
      ELSE IF v_user_id = NoUser THEN [err |-> MsgUserNotFound, rows |-> income]
      ELSE IF "null" \in {p_amount.t, p_date.t, p_is_recurring.t}
      THEN [err |-> MsgNotNull, rows |-> income]
      ELSE IF ~ (row.amount > 0) THEN [err |-> MsgCheck, rows |-> income]
      ELSE [err |-> NoErr, rows |-> income \cup {row}]

update_income(p_clerk_user_id, p_income_id, p_amount, p_description, p_date, p_is_recurring) ==
  LET v_user_id == get_user_id_from_clerk(p_clerk_user_id)
      found == ({i \in income : i.id = p_income_id.n /\ i.user_id = v_user_id})
      Upd(i) == [i EXCEPT !.amount = Coalesce(p_amount, @),
                          !.description = CoalesceText(p_description, @),
                          !.date = Coalesce(p_date, @),
                          !.is_recurring = IF p_is_recurring.t = "null" THEN @
                                           ELSE p_is_recurring.n = 1]
  IN  IF ~ (OkUuid(p_income_id) /\ OkDecimal(p_amount) /\ OkDate(p_date) /\ OkBool(p_is_recurring))
      THEN [err |-> MsgInvalidSyntax, rows |-> income]
      ELSE IF v_user_id = NoUser THEN [err |-> MsgUserNotFound, rows |-> income]
      ELSE IF found = {} THEN [err |-> (<<"Income", "not", "found", "or", "access", "denied">>), rows |-> income]
      ELSE IF \E i \in found : ~ (Upd(i).amount > 0) THEN [err |-> MsgCheck, rows |-> income]
      ELSE [err |-> NoErr, rows |-> {IF i \in found THEN Upd(i) ELSE i : i \in income}]

delete_income(p_clerk_user_id, p_income_id) ==
  LET v_user_id == get_user_id_from_clerk(p_clerk_user_id)
      found == ({i \in income : i.id = p_income_id.n /\ i.user_id = v_user_id})
  IN  IF ~ OkUuid(p_income_id) THEN [err |-> MsgInvalidSyntax, rows |-> income]
      ELSE IF v_user_id = NoUser THEN [err |-> MsgUserNotFound, rows |-> income]
      ELSE IF found = {} THEN [err |-> (<<"Income", "not", "found", "or", "access", "denied">>), rows |-> income]
      ELSE [err |-> NoErr, rows |-> income \ found]

\* ------------------------------------------------------------------------
\* Routes: /api/income
\* ------------------------------------------------------------------------
\* incomeRouter.get('/')
GetIncome(u, startDate, endDate, up) ==
  /\ \E h \in Authorization(u) : req' = [op |-> "getIncome", user |-> u, auth |-> h, startDate |-> startDate, endDate |-> endDate,
             up |-> up]
  /\ IF u = NoUser THEN resp' = Unauthorized /\ rpc' = NoRpc
     ELSE LET r == get_income_for_user(u, OrNull(startDate), OrNull(endDate))
              err == Thrown(up, r.err)
          IN  /\ rpc' = Rpc("get_income_for_user", err)
              /\ resp' = IF err = NoErr THEN Reply(200, NoErr, NoErr, r.rows)
                         ELSE Reply(500, <<"Failed", "to", "get", "income">>,
                                    Wrap(<<"Failed", "to", "get", "income:">>, err), {})
  /\ UNCHANGED <<tables, seq, today, genLog, txn>>

\* the 400 answers of incomeRouter.post('/'); NoErr when the body passes
CreateIncomeInvalid(b) ==
  IF ~ validateAmount(b.amount) THEN <<"Amount", "is", "invalid">>
  ELSE IF ~ Falsy(b.date) /\ ~ validateBackdatedEntry(b.date) THEN <<"Invalid", "date">>
  ELSE IF b.description.t # "undef" /\ ~ validateDescription(b.description)
  THEN <<"Description", "must", "be", "a", "string">>
  ELSE NoErr

\* incomeRouter.post('/')
CreateIncome(u, b, up) ==
  /\ seq.income <= MaxRows
  /\ \E h \in Authorization(u) : req' = [op |-> "createIncome", user |-> u, auth |-> h, body |-> b, up |-> up]
  /\ IF u = NoUser
     THEN resp' = Unauthorized /\ rpc' = NoRpc /\ UNCHANGED <<income, seq>>
     ELSE IF CreateIncomeInvalid(b) # NoErr
     THEN /\ resp' = Reply(400, CreateIncomeInvalid(b), NoErr, {})
          /\ rpc' = NoRpc /\ UNCHANGED <<income, seq>>
     ELSE LET r == create_income(u, b.amount, OrNull(b.description), OrNull(b.date),
                                 IF Falsy(b.is_recurring) THEN JBool(FALSE) ELSE b.is_recurring)
              err == Thrown(up, r.err)
              msg == Wrap(<<"Failed", "to", "create", "income:">>, err)
          IN  /\ rpc' = Rpc("create_income", err)
              /\ income' = IF err = NoErr THEN r.rows ELSE income
              /\ seq' = IF err = NoErr THEN [seq EXCEPT !.income = @ + 1] ELSE seq
              /\ resp' = IF err = NoErr THEN Reply(201, NoErr, NoErr, r.rows \ income)
                         ELSE Reply(500, <<"Failed", "to", "create", "income">>, msg, {})
  /\ UNCHANGED <<users, categories, expenses, loans, recurring_items, today, genLog, txn>>

\* the 400 answers of incomeRouter.put('/:id'); NoErr when the request passes
UpdateIncomeInvalid(id, b) ==
  IF ~ validateUUID(id) THEN <<"Invalid", "UUID", "format">>
  ELSE IF b.amount.t # "undef" /\ ~ validateAmount(b.amount) THEN <<"Amount", "is", "invalid">>
  ELSE IF b.date.t # "undef" /\ ~ validateBackdatedEntry(b.date) THEN <<"Invalid", "date">>
  ELSE IF b.description.t # "undef" /\ ~ validateDescription(b.description)
  THEN <<"Description", "must", "be", "a", "string">>
  ELSE NoErr

\* incomeRouter.put('/:id')
UpdateIncome(u, id, b, up) ==
  /\ \E h \in Authorization(u) : req' = [op |-> "updateIncome", user |-> u, auth |-> h, id |-> id, body |-> b, up |-> up]
  /\ IF u = NoUser
     THEN resp' = Unauthorized /\ rpc' = NoRpc /\ UNCHANGED income
     ELSE IF UpdateIncomeInvalid(id, b) # NoErr
     THEN /\ resp' = Reply(400, UpdateIncomeInvalid(id, b), NoErr, {})
          /\ rpc' = NoRpc /\ UNCHANGED income
     ELSE LET r == update_income(u, id, OrNull(b.amount), DefinedOrNull(b.description),
                                 OrNull(b.date), DefinedOrNull(b.is_recurring))
              err == Thrown(up, r.err)
              msg == Wrap(<<"Failed", "to", "update", "income:">>, err)
          IN  /\ rpc' = Rpc("update_income", err)
              /\ income' = IF err = NoErr THEN r.rows ELSE income
              /\ resp' = IF err = NoErr
                         THEN Reply(200, NoErr, NoErr, {x \in r.rows : x.id = id.n})
                         ELSE NotFoundOr500(msg, (<<"Income", "not", "found", "or", "access", "denied">>),
                                <<"Failed", "to", "update", "income">>)
  /\ UNCHANGED <<users, categories, expenses, loans, recurring_items, seq, today, genLog, txn>>

\* incomeRouter.delete('/:id')
DeleteIncome(u, id, up) ==
  /\ \E h \in Authorization(u) : req' = [op |-> "deleteIncome", user |-> u, auth |-> h, id |-> id, up |-> up]
  /\ IF u = NoUser
     THEN resp' = Unauthorized /\ rpc' = NoRpc /\ UNCHANGED income
     ELSE LET r == delete_income(u, id)
              err == Thrown(up, r.err)
              msg == Wrap(<<"Failed", "to", "delete", "income:">>, err)
          IN  /\ rpc' = Rpc("delete_income", err)
              /\ income' = IF err = NoErr THEN r.rows ELSE income
              /\ resp' = IF err = NoErr THEN Reply(200, NoErr, NoErr, {})
                         ELSE NotFoundOr500(msg, (<<"Income", "not", "found", "or", "access", "denied">>),
                                <<"Failed", "to", "delete", "income">>)
  /\ UNCHANGED <<users, categories, expenses, loans, recurring_items, seq, today, genLog, txn>>

\* ------------------------------------------------------------------------
\* Stored procedures: loans
\* ------------------------------------------------------------------------


get_loans_for_user(p_clerk_user_id) ==
  LET v_user_id == get_user_id_from_clerk(p_clerk_user_id)
  IN  IF v_user_id = NoUser THEN [err |-> MsgUserNotFound, rows |-> {}]
      ELSE [err |-> NoErr, rows |-> {l \in loans : l.user_id = v_user_id}]

create_loan(p_clerk_user_id, p_principal, p_interest_rate, p_term_months, p_start_date, p_description) ==
  LET v_user_id == get_user_id_from_clerk(p_clerk_user_id)
      row == [id |-> seq.loan, user_id |-> v_user_id, principal |-> p_principal.n,
              interest_rate |-> p_interest_rate.n, term_months |-> p_term_months.n \div 2,
              start_date |-> p_start_date.n, description |-> p_description]
  IN  IF ~ (OkDecimal(p_principal) /\ OkDecimal(p_interest_rate) /\ OkInteger(p_term_months)
            /\ OkDate(p_start_date))
      THEN [err |-> MsgInvalidSyntax, rows |-> loans]
      ELSE IF v_user_id = NoUser THEN [err |-> MsgUserNotFound, rows |-> loans]
      ELSE IF "null" \in {p_principal.t, p_interest_rate.t, p_term_months.t, p_start_date.t}
      THEN [err |-> MsgNotNull, rows |-> loans]
      ELSE IF ~ (row.principal > 0 /\ row.interest_rate >= 0 /\ row.interest_rate <= 2 /\ row.term_months > 0) THEN [err |-> MsgCheck, rows |-> loans]
      ELSE [err |-> NoErr, rows |-> loans \cup {row}]

update_loan(p_clerk_user_id, p_loan_id, p_principal, p_interest_rate, p_term_months, p_start_date, p_description) ==
  LET v_user_id == get_user_id_from_clerk(p_clerk_user_id)
      found == ({l \in loans : l.id = p_loan_id.n /\ l.user_id = v_user_id})
      Upd(l) == [l EXCEPT !.principal = Coalesce(p_principal, @),
                          !.interest_rate = Coalesce(p_interest_rate, @),
                          !.term_months = IF p_term_months.t = "null" THEN @
                                          ELSE p_term_months.n \div 2,
                          !.start_date = Coalesce(p_start_date, @),
                          !.description = CoalesceText(p_description, @)]
  IN  IF ~ (OkUuid(p_loan_id) /\ OkDecimal(p_principal) /\ OkDecimal(p_interest_rate)
            /\ OkInteger(p_term_months) /\ OkDate(p_start_date))
      THEN [err |-> MsgInvalidSyntax, rows |-> loans]
      ELSE IF v_user_id = NoUser THEN [err |-> MsgUserNotFound, rows |-> loans]
      ELSE IF found = {} THEN [err |-> (<<"Loan", "not", "found", "or", "access", "denied">>), rows |-> loans]
      ELSE IF \E l \in found : ~ (Upd(l).principal > 0 /\ Upd(l).interest_rate >= 0 /\ Upd(l).interest_rate <= 2 /\ Upd(l).term_months > 0) THEN [err |-> MsgCheck, rows |-> loans]
      ELSE [err |-> NoErr, rows |-> {IF l \in found THEN Upd(l) ELSE l : l \in loans}]

delete_loan(p_clerk_user_id, p_loan_id) ==
  LET v_user_id == get_user_id_from_clerk(p_clerk_user_id)
      found == ({l \in loans : l.id = p_loan_id.n /\ l.user_id = v_user_id})
  IN  IF ~ OkUuid(p_loan_id) THEN [err |-> MsgInvalidSyntax, rows |-> loans]
      ELSE IF v_user_id = NoUser THEN [err |-> MsgUserNotFound, rows |-> loans]
      ELSE IF found = {} THEN [err |-> (<<"Loan", "not", "found", "or", "access", "denied">>), rows |-> loans]
      ELSE [err |-> NoErr, rows |-> loans \ found]

\* ------------------------------------------------------------------------
\* Routes: /api/loans
\* ------------------------------------------------------------------------
\* loansRouter.get('/')
GetLoans(u, up) ==
  /\ \E h \in Authorization(u) : req' = [op |-> "getLoans", user |-> u, auth |-> h, up |-> up]
  /\ IF u = NoUser THEN resp' = Unauthorized /\ rpc' = NoRpc
     ELSE LET r == get_loans_for_user(u)
              err == Thrown(up, r.err)
          IN  /\ rpc' = Rpc("get_loans_for_user", err)
              /\ resp' = IF err = NoErr THEN Reply(200, NoErr, NoErr, r.rows)
                         ELSE Reply(500, <<"Failed", "to", "get", "loans">>,
                                    Wrap(<<"Failed", "to", "get", "loans:">>, err), {})
  /\ UNCHANGED <<tables, seq, today, genLog, txn>>

\* the 400 answers of loansRouter.post('/'); NoErr when the body passes
CreateLoanInvalid(b) ==
  IF ~ validateAmount(b.principal) THEN <<"Amount", "is", "invalid">>
  ELSE IF ~ validateInterestRate(b.interest_rate) THEN <<"Interest", "rate", "is", "invalid">>
  ELSE IF ~ validateTermMonths(b.term_months) THEN <<"Term", "is", "invalid">>
  ELSE IF ~ Falsy(b.start_date) /\ ~ validateFutureDate(b.start_date) THEN <<"Invalid", "date">>
  ELSE IF b.description.t # "undef" /\ ~ validateDescription(b.description)
  THEN <<"Description", "must", "be", "a", "string">>
  ELSE NoErr

\* loansRouter.post('/')
CreateLoan(u, b, up) ==
  /\ seq.loan <= MaxLoans
  /\ \E h \in Authorization(u) : req' = [op |-> "createLoan", user |-> u, auth |-> h, body |-> b, up |-> up]
  /\ IF u = NoUser
     THEN resp' = Unauthorized /\ rpc' = NoRpc /\ UNCHANGED <<loans, seq>>
     ELSE IF CreateLoanInvalid(b) # NoErr
     THEN /\ resp' = Reply(400, CreateLoanInvalid(b), NoErr, {})
          /\ rpc' = NoRpc /\ UNCHANGED <<loans, seq>>
     ELSE LET r == create_loan(u, b.principal, b.interest_rate, b.term_months,
                               OrNull(b.start_date), OrNull(b.description))
              err == Thrown(up, r.err)
              msg == Wrap(<<"Failed", "to", "create", "loan:">>, err)
          IN  /\ rpc' = Rpc("create_loan", err)
              /\ loans' = IF err = NoErr THEN r.rows ELSE loans
              /\ seq' = IF err = NoErr THEN [seq EXCEPT !.loan = @ + 1] ELSE seq
              /\ resp' = IF err = NoErr THEN Reply(201, NoErr, NoErr, r.rows \ loans)
                         ELSE Reply(500, <<"Failed", "to", "create", "loan">>, msg, {})
  /\ UNCHANGED <<users, categories, expenses, income, recurring_items, today, genLog, txn>>

\* the 400 answers of loansRouter.put('/:id'); NoErr when the request passes
UpdateLoanInvalid(id, b) ==
  IF ~ validateUUID(id) THEN <<"Invalid", "UUID", "format">>
  ELSE IF b.principal.t # "undef" /\ ~ validateAmount(b.principal) THEN <<"Amount", "is", "invalid">>
  ELSE IF b.interest_rate.t # "undef" /\ ~ validateInterestRate(b.interest_rate)
  THEN <<"Interest", "rate", "is", "invalid">>
  ELSE IF b.term_months.t # "undef" /\ ~ validateTermMonths(b.term_months)
  THEN <<"Term", "is", "invalid">>
  ELSE IF b.start_date.t # "undef" /\ ~ validateFutureDate(b.start_date) THEN <<"Invalid", "date">>
  ELSE IF b.description.t # "undef" /\ ~ validateDescription(b.description)
  THEN <<"Description", "must", "be", "a", "string">>
  ELSE NoErr

\* loansRouter.put('/:id')
UpdateLoan(u, id, b, up) ==
  /\ \E h \in Authorization(u) : req' = [op |-> "updateLoan", user |-> u, auth |-> h, id |-> id, body |-> b, up |-> up]
  /\ IF u = NoUser
     THEN resp' = Unauthorized /\ rpc' = NoRpc /\ UNCHANGED loans
     ELSE IF UpdateLoanInvalid(id, b) # NoErr
     THEN /\ resp' = Reply(400, UpdateLoanInvalid(id, b), NoErr, {})
          /\ rpc' = NoRpc /\ UNCHANGED loans
     ELSE LET r == update_loan(u, id, OrNull(b.principal), DefinedOrNull(b.interest_rate),
                               OrNull(b.term_months), OrNull(b.start_date),
                               DefinedOrNull(b.description))
              err == Thrown(up, r.err)
              msg == Wrap(<<"Failed", "to", "update", "loan:">>, err)
          IN  /\ rpc' = Rpc("update_loan", err)
              /\ loans' = IF err = NoErr THEN r.rows ELSE loans
              /\ resp' = IF err = NoErr
                         THEN Reply(200, NoErr, NoErr, {x \in r.rows : x.id = id.n})
                         ELSE NotFoundOr500(msg, (<<"Loan", "not", "found", "or", "access", "denied">>),
                                <<"Failed", "to", "update", "loan">>)
  /\ UNCHANGED <<users, categories, expenses, income, recurring_items, seq, today, genLog, txn>>

\* loansRouter.delete('/:id')
DeleteLoan(u, id, up) ==
  /\ \E h \in Authorization(u) : req' = [op |-> "deleteLoan", user |-> u, auth |-> h, id |-> id, up |-> up]
  /\ IF u = NoUser
     THEN resp' = Unauthorized /\ rpc' = NoRpc /\ UNCHANGED loans
     ELSE LET r == delete_loan(u, id)
              err == Thrown(up, r.err)
              msg == Wrap(<<"Failed", "to", "delete", "loan:">>, err)
          IN  /\ rpc' = Rpc("delete_loan", err)
              /\ loans' = IF err = NoErr THEN r.rows ELSE loans
              /\ resp' = IF err = NoErr THEN Reply(200, NoErr, NoErr, {})
                         ELSE NotFoundOr500(msg, (<<"Loan", "not", "found", "or", "access", "denied">>),
                                <<"Failed", "to", "delete", "loan">>)
  /\ UNCHANGED <<users, categories, expenses, income, recurring_items, seq, today, genLog, txn>>

\* ------------------------------------------------------------------------
\* Specification SpecValid: one user, the bodies of the loan and recurring
\* item endpoints drawn field by field from valid and invalid values
\* ------------------------------------------------------------------------

NextValid ==
  \/ GetMe("A")
  \/ \E b \in {[principal |-> p, interest_rate |-> r, term_months |-> t, start_date |-> d,
                 description |-> JUndef] :
                  p \in {JNum(2 * 10), JNum(0), JUndef}, r \in {JNum(1), JNum(3), JUndef},
                  t \in {JNum(2 * 12), JNum(3), JNum(2 * 601), JUndef},
                  d \in {JDate(20230105), JDate(20230230), JText("2023-1-5"), JUndef}} :
       CreateLoan("A", b, TRUE)
  \/ \E b \in {[principal |-> p, interest_rate |-> r, term_months |-> t, start_date |-> d,
                 description |-> JUndef] :
                  p \in {JNum(2 * 10), JNum(0), JUndef}, r \in {JNum(1), JNum(3), JUndef},
                  t \in {JNum(2 * 12), JNum(3), JNum(2 * 601), JUndef},
                  d \in {JDate(20230105), JDate(20230230), JText("2023-1-5"), JUndef}} :
       UpdateLoan("A", JUuid(1), b, TRUE)
  \/ \E b \in {[category_id |-> JUuid(1), amount |-> a, description |-> JUndef,
                 day_of_month |-> dm, start_date |-> d, is_active |-> JUndef] :
                  a \in {JNum(2 * 10), JNum(0), JUndef},
                  dm \in {JNum(2 * 1), JNum(3), JNum(2 * 32), JUndef},
                  d \in {JDate(20230105), JDate(20230230), JText("2023-1-5"), JUndef}} :
       CreateRecurringItem("A", b, TRUE)
  \/ \E b \in {[category_id |-> JUuid(1), amount |-> a, description |-> JUndef,
                 day_of_month |-> dm, start_date |-> d, is_active |-> JUndef] :
                  a \in {JNum(2 * 10), JNum(0), JUndef},
                  dm \in {JNum(2 * 1), JNum(3), JNum(2 * 32), JUndef},
                  d \in {JDate(20230105), JDate(20230230), JText("2023-1-5"), JUndef}} :
       UpdateRecurringItem("A", JUuid(1), b, TRUE)

SpecValid == Init /\ [][NextValid]_vars

\* the inputs the validation rules name
NonPositive(v) == v.t = "num" /\ v.n <= 0
DateMalformed(v) == (v.t = "text" /\ v.s # "") \/ (v.t = "date" /\ ~ ValidDate(v.n))
BadInput(r) ==
  LET RateOutside(v) == v.t = "num" /\ (v.n < 0 \/ v.n > 2 * 1)
      TermNotInteger(v) == v.t = "num" /\ ~ (v.n > 0 /\ v.n <= 2 * 600 /\ v.n % 2 = 0)
      DayNotInteger(v) == v.t = "num" /\ ~ (v.n >= 2 * 1 /\ v.n <= 2 * 31 /\ v.n % 2 = 0)
  IN  IF r.op \in {"createLoan", "updateLoan"}
      THEN \/ NonPositive(r.body.principal) \/ RateOutside(r.body.interest_rate)
           \/ TermNotInteger(r.body.term_months) \/ DateMalformed(r.body.start_date)
      ELSE IF r.op \in {"createRecurringItem", "updateRecurringItem"}
      THEN \/ NonPositive(r.body.amount) \/ DayNotInteger(r.body.day_of_month)
           \/ DateMalformed(r.body.start_date)
      ELSE FALSE

\* C8: a create or update request for a loan or a recurring item whose
\* amount or principal is <= 0, whose interest rate is outside [0,1], whose
\* term is not an integer in (0,600], whose day_of_month is not an integer in
\* [1,31] or whose date is malformed is answered 400 with a reason, and no
\* stored procedure is called.
C8_InvalidRejectedBeforePersistence ==
  (req.op # "none" /\ req.user # NoUser /\ BadInput(req)) =>
     (resp.status = 400 /\ resp.error # NoErr /\ rpc = NoRpc)

\* ------------------------------------------------------------------------
\* Specification SpecApi: two users and the endpoints of every table
\* ------------------------------------------------------------------------
\* rows of expenses, income, loans and recurring_items created so far
Created == (seq.expense - 1) + (seq.income - 1) + (seq.loan - 1) + (seq.item - 1)

\* ids in requests: the first row of a table and a text that is no uuid
ApiIds == {JUuid(1), JText("x")}
\* category ids in requests: a default category of the first user, and the id
\* of the first user's own category or of a default category of the second
ApiOwnCategories == {JUuid(1), JUuid(Len(DefaultCategories) + 1)}

\* a JSON body none of whose fields is given
Body == [name |-> JUndef, icon |-> JUndef, color |-> JUndef, category_id |-> JUndef,
         amount |-> JUndef, description |-> JUndef, date |-> JUndef, is_recurring |-> JUndef,
         principal |-> JUndef, interest_rate |-> JUndef, term_months |-> JUndef,
         start_date |-> JUndef, day_of_month |-> JUndef, is_active |-> JUndef]



\* the bodies of the update requests: a new name; a new amount together with
\* a category that may not be the caller's; is_active false, a day_of_month of 1.5

InitApi == Init /\ today = 20230110

NextApi ==
  \/ \E u \in ClerkIds : GetMe(u)
  \/ \E u \in ClerkIds : GetCategories(u, TRUE)
  \/ \E u \in ClerkIds : GetExpenses(u, JUndef, JUndef, TRUE)
  \/ \E u \in ClerkIds : GetIncome(u, JUndef, JUndef, TRUE)
  \/ \E u \in ClerkIds : GetLoans(u, TRUE)
  \/ \E u \in ClerkIds : GetRecurringItems(u, FALSE, TRUE)
  \/ \E u \in ClerkIds : CreateCategory(u, ([Body EXCEPT !.name = JText("Gym")]), TRUE)
  \/ Created < MaxRows /\ \E u \in ClerkIds : \E c \in ApiOwnCategories :
       CreateExpense(u, ([Body EXCEPT !.category_id = c, !.amount = JNum(2 * 10), !.date = JDate(20230105)]), TRUE)
  \/ Created < MaxRows /\ \E u \in ClerkIds :
       CreateIncome(u, ([Body EXCEPT !.amount = JNum(2 * 10), !.date = JDate(20230105)]), TRUE)
  \/ Created < MaxRows /\ \E u \in ClerkIds :
       CreateLoan(u, ([Body EXCEPT !.principal = JNum(2 * 10), !.interest_rate = JNum(1), !.term_months = JNum(2 * 12), !.start_date = JDate(20230105)]), TRUE)
  \/ Created < MaxRows /\ \E u \in ClerkIds : \E c \in ApiOwnCategories :
       CreateRecurringItem(u, ([Body EXCEPT !.category_id = c, !.amount = JNum(2 * 10), !.day_of_month = JNum(2 * 1), !.start_date = JDate(20230105)]), TRUE)
  \/ \E id \in (ApiOwnCategories \cup {JText("x")}) : \E b \in {([Body EXCEPT !.name = JText("Club")]), ([Body EXCEPT !.name = JText("Other")])} : UpdateCategory("A", id, b, TRUE)
  \/ \E id \in ApiIds :
        UpdateExpense("A", id, ([Body EXCEPT !.category_id = (JUuid(Len(DefaultCategories) + 1)), !.amount = JNum(2 * 20), !.date = JUndef]), TRUE)
  \/ \E id \in ApiIds : UpdateIncome("A", id, ([Body EXCEPT !.amount = JNum(2 * 20), !.date = JUndef]), TRUE)
  \/ \E id \in ApiIds : UpdateLoan("A", id, ([Body EXCEPT !.principal = JNum(2 * 20), !.interest_rate = JUndef, !.term_months = JUndef, !.start_date = JUndef]), TRUE)
  \/ \E id \in ApiIds : \E b \in {Deactivate, ([Body EXCEPT !.category_id = JUndef, !.amount = JUndef, !.day_of_month = JNum(3), !.start_date = JUndef])} : UpdateRecurringItem("A", id, b, TRUE)
  \/ \E id \in (ApiOwnCategories \cup {JText("x")}) : DeleteCategory("A", id, TRUE)
  \/ \E id \in ApiIds : DeleteExpense("A", id, TRUE)
  \/ \E id \in ApiIds : DeleteIncome("A", id, TRUE)
  \/ \E id \in ApiIds : \E up \in BOOLEAN : DeleteLoan("A", id, up)
  \/ \E id \in ApiIds : DeleteRecurringItem("A", id, TRUE)
  \/ Generate("A", (JNum(2 * 2023)), (JNum(2 * 1)), TRUE)

SpecApi == InitApi /\ [][NextApi]_vars

\* the update and delete requests
\* the request names a row of its table that belongs to the caller
Owned(r) ==
  LET TargetRows == IF r.op \in {"updateCategory", "deleteCategory"} THEN categories
                    ELSE IF r.op \in {"updateExpense", "deleteExpense"} THEN expenses
                    ELSE IF r.op \in {"updateIncome", "deleteIncome"} THEN income
                    ELSE IF r.op \in {"updateLoan", "deleteLoan"} THEN loans
                    ELSE recurring_items
  IN  \E x \in TargetRows : x.id = r.id.n /\ x.user_id = r.user
\* the request names one of the caller's default categories
DefaultTarget(r) ==
  /\ r.op \in {"updateCategory", "deleteCategory"}
  /\ \E c \in categories : c.id = r.id.n /\ c.user_id = r.user /\ c.is_default
\* the update sets a category that is not one of the caller's
RefForeign(r) ==
  /\ r.op \in {"updateExpense", "updateRecurringItem"}
  /\ r.body.category_id.t = "uuid"
  /\ ~ \E c \in categories : c.id = r.body.category_id.n /\ c.user_id = r.user
\* an argument that is not of the type of its parameter
IllTyped(r) ==
  \/ r.id.t # "uuid"
  \/ /\ r.op = "updateRecurringItem"
     /\ \/ r.body.category_id.t \notin {"undef", "null", "uuid"}
        \/ r.body.amount.t \notin {"undef", "null", "num"}
        \/ r.body.day_of_month.t \notin {"undef", "null", "num"}
        \/ (r.body.day_of_month.t = "num" /\ r.body.day_of_month.n % 2 # 0)
        \/ r.body.start_date.t \notin {"undef", "null", "date"}
        \/ DateMalformed(r.body.start_date)
        \/ r.body.is_active.t \notin {"undef", "null", "bool"}
\* an update or delete request that reached a stored procedure
Persisted(r, c) ==
  /\ r.op \in {"updateCategory", "updateExpense", "updateIncome", "updateLoan",
               "updateRecurringItem", "deleteCategory", "deleteExpense", "deleteIncome",
               "deleteLoan", "deleteRecurringItem"}
  /\ c.fn # "none"

\* C9 as stated: an update or delete that reaches the store and names a row
\* that does not exist or belongs to another user is answered 404 'not found
\* or access denied' and changes no row; every other persistence error is
\* answered 500, never 404.
C9_NotFound404Else500 ==
  [][Persisted(req', rpc') =>
       IF req'.up /\ ~ IllTyped(req') /\ ~ Owned(req')
       THEN resp'.status = 404 /\ IsNotFoundMsg(resp'.error) /\ tables' = tables
       ELSE rpc'.err # NoErr => (resp'.status = 500 /\ tables' = tables)]_vars

\* C9 amended: with the store reachable and well-typed arguments, an update or
\* delete of a row that does not exist or belongs to another user, or an
\* update that sets a category that is not the caller's, is answered 404 'not
\* found or access denied'; an update or delete of one of the caller's default
\* categories is answered 403; every other persistence error is answered 500;
\* none of them changes a stored row.
C9_NotFound404Default403Else500 ==
  [][Persisted(req', rpc') =>
       IF req'.up /\ ~ IllTyped(req') /\ (~ Owned(req') \/ RefForeign(req'))
       THEN resp'.status = 404 /\ IsNotFoundMsg(resp'.error) /\ tables' = tables
       ELSE IF req'.up /\ ~ IllTyped(req') /\ DefaultTarget(req')
       THEN resp'.status = 403 /\ tables' = tables
       ELSE rpc'.err # NoErr => (resp'.status = 500 /\ tables' = tables)]_vars

\* C9 witness: the delete of a loan of another user was answered 404.
C9_Witness ==
  /\ req.op = "deleteLoan" /\ req.up /\ resp.status = 404
  /\ \E l \in loans : l.id = req.id.n /\ l.user_id # req.user

\* the rows of user v, table by table
RowsOf(v) == <<{c \in categories : c.user_id = v}, {e \in expenses : e.user_id = v},
               {i \in income : i.user_id = v}, {l \in loans : l.user_id = v},
               {r \in recurring_items : r.user_id = v}>>
\* the rows each list request must return
Listed(r) ==
  IF r.op = "getCategories" THEN RowsOf(r.user)[1]
  ELSE IF r.op = "getExpenses" THEN RowsOf(r.user)[2]
  ELSE IF r.op = "getIncome" THEN RowsOf(r.user)[3]
  ELSE IF r.op = "getLoans" THEN RowsOf(r.user)[4]
  ELSE RowsOf(r.user)[5]

\* C10: a request of one user leaves the categories, expenses, income, loans
\* and recurring items of every other user as they are and returns none of
\* them, and a list request returns exactly the caller's rows, so what a user
\* observes does not depend on the requests of the others.
C10_OwnershipIsolation ==
  [][/\ \A v \in ClerkIds :
          req'.user # v =>
            /\ RowsOf(v)' = RowsOf(v)
            /\ req'.op # "me" => \A x \in resp'.rows : x.user_id # v
     /\ ( /\ req'.op \in {"getCategories", "getExpenses", "getIncome", "getLoans",
                         "getRecurringItems"}
          /\ resp'.status = 200 ) => resp'.rows = Listed(req')]_vars

\* C10 witness: user A's update of an expense of user B was answered 404.
C10_Witness ==
  /\ req.op = "updateExpense" /\ req.user = "A" /\ resp.status = 404
  /\ \E e \in expenses : e.id = req.id.n /\ e.user_id = "B"

\* every default category seeded for a registered user is stored as seeded
DefaultsIntact ==
  \A u \in users : \A i \in 1..Len(DefaultCategories) :
     \E c \in categories : /\ c.user_id = u /\ c.is_default
                           /\ c.name = DefaultCategories[i][1]
                           /\ c.icon = DefaultCategories[i][2]
                           /\ c.color = DefaultCategories[i][3]

\* C11: no request removes or changes a default category: every default row
\* is still stored after the step, every registered user has the ten defaults
\* with their seeded name, icon and color, and an update or delete of one of
\* the caller's default categories that reaches the store is answered 403.
C11_DefaultCategoriesProtected ==
  [][/\ \A c \in categories : c.is_default => c \in categories'
     /\ DefaultsIntact'
     /\ (Persisted(req', rpc') /\ req'.up /\ DefaultTarget(req')) => resp'.status = 403]_vars

\* C11 witness: a rename of one of the caller's default categories was refused.
C11_Witness ==
  /\ req.op = "updateCategory" /\ resp.status = 403 /\ req.body.name = JText("Club")
  /\ \E c \in categories : c.id = req.id.n /\ c.user_id = req.user /\ c.is_default

\* C12: no user has two categories with the same name, and a create whose
\* name the caller already has is answered 409 and stores nothing.
C12_CategoryNamesUnique ==
  [][/\ \A c \in categories' : \A d \in categories' :
          (c.user_id = d.user_id /\ c.name = d.name) => c = d
     /\ ( /\ req'.op = "createCategory" /\ rpc'.fn # "none" /\ req'.up
          /\ \E c \in categories : c.user_id = req'.user /\ c.name = req'.body.name.s )
        => (resp'.status = 409 /\ categories' = categories)]_vars

\* C12 witness: a second create of "Gym" by the same user was answered 409.
C12_Witness ==
  /\ req.op = "createCategory" /\ resp.status = 409
  /\ \E c \in categories : c.user_id = req.user /\ c.name = req.body.name.s

\* C13: the first GET /api/me of a Clerk id stores one user row and exactly
\* the ten default categories for it; every later one returns the same user
\* and stores no user and no category.
C13_GetOrCreateUserSeedsOnce ==
  [][(req'.op = "me" /\ req'.user # NoUser) =>
       /\ resp'.rows = {req'.user}
       /\ IF req'.user \in users
          THEN users' = users /\ categories' = categories
          ELSE /\ users' = users \cup {req'.user}
               /\ categories \subseteq categories'
               /\ Cardinality(categories' \ categories) = 10
               /\ \A c \in categories' \ categories : c.user_id = req'.user /\ c.is_default
               /\ DefaultsIntact']_vars

\* C13 witness: GET /api/me by a user who had already created a category.
C13_Witness ==
  /\ req.op = "me" /\ req.user \in users
  /\ \E c \in categories : c.user_id = req.user /\ ~ c.is_default

\* ------------------------------------------------------------------------
\* JavaScript numbers, as exact fractions
\* ------------------------------------------------------------------------
\* A natural number of any size is a sequence of base-10000 digits, least
\* significant first, without leading zero digits; a number is a record
\* [neg, num, den] standing for (-1)^neg * num / den with den > 0.  The
\* arithmetic is exact: the rounding of IEEE doubles is not modelled.  Sums,
\* products and differences are computed by halving the range of digits.

\* a + b + carry, for a carry of 0 or 1
BigAdd(a, b, carry) ==
  LET Digit(s, i) == IF i <= Len(s) THEN s[i] ELSE 0
      RECURSIVE Columns(_, _, _)
      \* the digits from..to of the sum, followed by the carry out of them
      Columns(from, to, c) ==
        IF from = to
        THEN <<(Digit(a, from) + Digit(b, from) + c) % 10000, (Digit(a, from) + Digit(b, from) + c) \div 10000>>
        ELSE LET Then(low) == SubSeq(low, 1, Len(low) - 1)
                              \o Columns((from + to) \div 2 + 1, to, low[Len(low)])
             IN  Then(Columns(from, (from + to) \div 2, c))
      n == IF Len(a) > Len(b) THEN Len(a) ELSE Len(b)
      Trim(sum) == IF sum[n + 1] = 0 THEN SubSeq(sum, 1, n) ELSE sum
  IN  IF n = 0 THEN (IF carry = 0 THEN << >> ELSE <<carry>>) ELSE Trim(Columns(1, n, carry))

\* a * b, halving a down to single digits
RECURSIVE BigMul(_, _)
BigMul(a, b) ==
  LET RECURSIVE Times(_, _, _)
      \* the digits from..to of b * a[1], followed by the carry out of them
      Times(from, to, c) ==
        IF from = to
        THEN <<(b[from] * a[1] + c) % 10000, (b[from] * a[1] + c) \div 10000>>
        ELSE LET Then(low) == SubSeq(low, 1, Len(low) - 1)
                              \o Times((from + to) \div 2 + 1, to, low[Len(low)])
             IN  Then(Times(from, (from + to) \div 2, c))
      Trim(product) == IF product[Len(b) + 1] = 0 THEN SubSeq(product, 1, Len(b)) ELSE product
      half == Len(a) \div 2
      Shift(high) == IF high = << >> THEN << >> ELSE [i \in 1..half |-> 0] \o high
  IN  IF a = << >> \/ b = << >> THEN << >>
      ELSE IF Len(a) = 1 THEN (IF a[1] = 0 THEN << >> ELSE Trim(Times(1, Len(b), 0)))
      ELSE BigAdd(BigMul(SubSeq(a, 1, half), b), Shift(BigMul(SubSeq(a, half + 1, Len(a)), b)), 0)

\* a < b on natural numbers
BigLess(a, b) ==
  LET Digit(s, i) == IF i <= Len(s) THEN s[i] ELSE 0
      Top(differ) == differ # << >> /\ Digit(a, differ[Len(differ)]) < Digit(b, differ[Len(differ)])
  IN  Top(SelectSeq([i \in 1..(Len(a) + Len(b)) |-> i], LAMBDA i : Digit(a, i) # Digit(b, i)))

\* the number n / d, for integers n and d > 0
RatOf(n, d) ==
  LET Big(k) == IF k = 0 THEN << >> ELSE IF k < 10000 THEN <<k>>
                ELSE IF k < 100000000 THEN <<k % 10000, k \div 10000>>
                ELSE <<k % 10000, (k \div 10000) % 10000, k \div 100000000>>
  IN  [neg |-> n < 0, num |-> Big(IF n < 0 THEN 0 - n ELSE n), den |-> Big(d)]

\* x + y
RatAdd(x, y) ==
  LET \* a - b for a >= b
      Minus(a, b) ==
        LET Digit(s, i) == IF i <= Len(s) THEN s[i] ELSE 0
            RECURSIVE Columns(_, _, _)
            \* the digits from..to of the difference, followed by the borrow out of them
            Columns(from, to, c) ==
              IF from = to
              THEN <<(a[from] - Digit(b, from) - c + 10000) % 10000,
                     IF a[from] - Digit(b, from) - c < 0 THEN 1 ELSE 0>>
              ELSE LET Then(low) == SubSeq(low, 1, Len(low) - 1)
                                    \o Columns((from + to) \div 2 + 1, to, low[Len(low)])
                   IN  Then(Columns(from, (from + to) \div 2, c))
            Strip(diff) ==
              LET Upto(digits) == IF digits = << >> THEN << >> ELSE SubSeq(diff, 1, digits[Len(digits)])
              IN  Upto(SelectSeq([i \in 1..Len(diff) |-> i], LAMBDA i : diff[i] # 0))
        IN  IF a = << >> THEN << >> ELSE Strip(Columns(1, Len(a), 0))
      same == x.den = y.den
      \* p / den + q / den, with the signs of x and y
      Over(p, q, den) ==
        LET pLess == BigLess(p, q)
            Diff(big, small) == [neg |-> IF pLess THEN y.neg ELSE x.neg /\ p # q,
                                 num |-> Minus(big, small), den |-> den]
        IN  IF x.neg = y.neg THEN [neg |-> x.neg, num |-> BigAdd(p, q, 0), den |-> den]
            ELSE Diff(IF pLess THEN q ELSE p, IF pLess THEN p ELSE q)
  IN  Over(IF same THEN x.num ELSE BigMul(x.num, y.den),
           IF same THEN y.num ELSE BigMul(y.num, x.den),
           IF same THEN x.den ELSE BigMul(x.den, y.den))

\* x * y, and x / y as x * (1 / y) for y # 0
RatMul(x, y) ==
  [neg |-> x.neg # y.neg, num |-> BigMul(x.num, y.num), den |-> BigMul(x.den, y.den)]
RatInv(y) == [neg |-> y.neg, num |-> y.den, den |-> y.num]

\* x < y
RatLess(x, y) ==
  LET Negative(d) == d.neg /\ d.num # << >>
  IN  Negative(RatAdd(x, [y EXCEPT !.neg = ~ @]))

\* ------------------------------------------------------------------------
\* Loan payments (utils/loans.ts)
\* ------------------------------------------------------------------------
\* calculateMonthlyPayment with the zero-rate branch before the zero-term guard
calculateMonthlyPayment_RateFirst(principal, annualInterestRate, termMonths) ==
  LET RECURSIVE pow(_, _)
      \* Math.pow(base, n) for an integer n >= 0, by repeated squaring
      pow(base, n) ==
        IF n = 0 THEN RatOf(1, 1)
        ELSE LET Odd(square) == IF n % 2 = 0 THEN square ELSE RatMul(base, square)
                 Square(half) == Odd(RatMul(half, half))
             IN  Square(pow(base, n \div 2))
      Annuity(monthlyRate) ==
        LET numerator == RatMul(monthlyRate, pow(RatAdd(RatOf(1, 1), monthlyRate), termMonths))
            denominator == RatAdd(pow(RatAdd(RatOf(1, 1), monthlyRate), termMonths), RatOf(-1, 1))
        IN  RatMul(principal, RatMul(numerator, RatInv(denominator)))
  IN  IF annualInterestRate.num = << >> THEN RatMul(principal, RatInv(RatOf(termMonths, 1)))
      ELSE IF termMonths = 0 THEN RatOf(0, 1)
      ELSE Annuity(RatMul(annualInterestRate, RatInv(RatOf(12, 1))))

\* calculateMonthlyPayment compounding the annual rate every month
calculateMonthlyPayment_AnnualRate(principal, annualInterestRate, termMonths) ==
  LET RECURSIVE pow(_, _)
      \* Math.pow(base, n) for an integer n >= 0, by repeated squaring
      pow(base, n) ==
        IF n = 0 THEN RatOf(1, 1)
        ELSE LET Odd(square) == IF n % 2 = 0 THEN square ELSE RatMul(base, square)
                 Square(half) == Odd(RatMul(half, half))
             IN  Square(pow(base, n \div 2))
      Annuity(monthlyRate) ==
        LET numerator == RatMul(monthlyRate, pow(RatAdd(RatOf(1, 1), monthlyRate), termMonths))
            denominator == RatAdd(pow(RatAdd(RatOf(1, 1), monthlyRate), termMonths), RatOf(-1, 1))
        IN  RatMul(principal, RatMul(numerator, RatInv(denominator)))
  IN  IF termMonths = 0 THEN RatOf(0, 1)
      ELSE IF annualInterestRate.num = << >> THEN RatMul(principal, RatInv(RatOf(termMonths, 1)))
      ELSE Annuity(annualInterestRate)

\* calculateMonthlyPayment: the numbers are exact fractions, termMonths is an integer
calculateMonthlyPayment(principal, annualInterestRate, termMonths) ==
  LET RECURSIVE pow(_, _)
      \* Math.pow(base, n) for an integer n >= 0, by repeated squaring
      pow(base, n) ==
        IF n = 0 THEN RatOf(1, 1)
        ELSE LET Odd(square) == IF n % 2 = 0 THEN square ELSE RatMul(base, square)
                 Square(half) == Odd(RatMul(half, half))
             IN  Square(pow(base, n \div 2))
      Annuity(monthlyRate) ==
        LET numerator == RatMul(monthlyRate, pow(RatAdd(RatOf(1, 1), monthlyRate), termMonths))
            denominator == RatAdd(pow(RatAdd(RatOf(1, 1), monthlyRate), termMonths), RatOf(-1, 1))
        IN  RatMul(principal, RatMul(numerator, RatInv(denominator)))
  IN  IF termMonths = 0 THEN RatOf(0, 1)
      ELSE IF annualInterestRate.num = << >> THEN RatMul(principal, RatInv(RatOf(termMonths, 1)))
      ELSE Annuity(RatMul(annualInterestRate, RatInv(RatOf(12, 1))))

\* calculateTotalLoanObligations counting a loan in the month after its last
RECURSIVE calculateTotalLoanObligations_Inclusive(_)
calculateTotalLoanObligations_Inclusive(loanList) ==
  IF loanList = << >> THEN RatOf(0, 1)
  ELSE LET loan == loanList[Len(loanList)]
           total == calculateTotalLoanObligations_Inclusive(SubSeq(loanList, 1, Len(loanList) - 1))
           monthsSinceStart == (YearOf(today) - YearOf(loan.start_date)) * 12
                               + (MonthOf(today) - MonthOf(loan.start_date))
       IN  IF monthsSinceStart <= loan.term_months
           THEN RatAdd(total, calculateMonthlyPayment(RatOf(loan.principal, 2),
                                                      RatOf(loan.interest_rate, 2), loan.term_months))
           ELSE total

\* calculateTotalLoanObligations: loans.reduce(..., 0) over the rows of getLoans;
\* new Date() is today and the dates are read in the time zone of the server (UTC)
RECURSIVE calculateTotalLoanObligations(_)
calculateTotalLoanObligations(loanList) ==
  IF loanList = << >> THEN RatOf(0, 1)
  ELSE LET loan == loanList[Len(loanList)]
           total == calculateTotalLoanObligations(SubSeq(loanList, 1, Len(loanList) - 1))
           monthsSinceStart == (YearOf(today) - YearOf(loan.start_date)) * 12
                               + (MonthOf(today) - MonthOf(loan.start_date))
       IN  IF monthsSinceStart < loan.term_months
           THEN RatAdd(total, calculateMonthlyPayment(RatOf(loan.principal, 2),
                                                      RatOf(loan.interest_rate, 2), loan.term_months))
           ELSE total

\* ------------------------------------------------------------------------
\* Insights
\* ------------------------------------------------------------------------
\* An insight is its type and severity; the amount of a loan_acceleration
\* message is kept as extraPayment.  null is the insight of type "null".
Insight(type, severity, extraPayment) ==
  [type |-> type, severity |-> severity, extraPayment |-> extraPayment]

\* detectOverspending with the warning threshold taken inclusively
detectOverspending_WarningAt90(currentIncome, currentExpenses, loanObligations) ==
  LET totalObligations == RatAdd(currentExpenses, loanObligations)
      remainingBalance == RatAdd(currentIncome, [totalObligations EXCEPT !.neg = ~ @])
      ratio == RatMul(totalObligations, RatInv(currentIncome))
  IN  IF RatLess(remainingBalance, RatOf(0, 1)) THEN Insight("overspending", "error", RatOf(0, 1))
      ELSE IF RatLess(RatOf(0, 1), currentIncome) /\ ~ RatLess(ratio, RatOf(9, 10))
      THEN Insight("overspending", "warning", RatOf(0, 1))
      ELSE IF /\ RatLess(RatOf(0, 1), currentIncome) /\ RatLess(RatOf(7, 10), ratio)
              /\ ~ RatLess(RatOf(9, 10), ratio)
      THEN Insight("overspending", "info", RatOf(0, 1))
      ELSE Insight("null", "", RatOf(0, 1))

detectOverspending(currentIncome, currentExpenses, loanObligations) ==
  LET totalObligations == RatAdd(currentExpenses, loanObligations)
      remainingBalance == RatAdd(currentIncome, [totalObligations EXCEPT !.neg = ~ @])
      ratio == RatMul(totalObligations, RatInv(currentIncome))
  IN  IF RatLess(remainingBalance, RatOf(0, 1)) THEN Insight("overspending", "error", RatOf(0, 1))
      ELSE IF RatLess(RatOf(0, 1), currentIncome) /\ RatLess(RatOf(9, 10), ratio)
      THEN Insight("overspending", "warning", RatOf(0, 1))
      ELSE IF /\ RatLess(RatOf(0, 1), currentIncome) /\ RatLess(RatOf(7, 10), ratio)
              /\ ~ RatLess(RatOf(9, 10), ratio)
      THEN Insight("overspending", "info", RatOf(0, 1))
      ELSE Insight("null", "", RatOf(0, 1))

\* suggestLoanAcceleration keeping the last loan among equal rates
suggestLoanAcceleration_LastOnTies(remainingBalance, loanList) ==
  LET monthsSinceStart(loan) == (YearOf(today) - YearOf(loan.start_date)) * 12
                                + (MonthOf(today) - MonthOf(loan.start_date))
      activeLoans == SelectSeq(loanList, LAMBDA loan : monthsSinceStart(loan) < loan.term_months)
      RECURSIVE reduce(_)
      reduce(k) == IF k = 1 THEN activeLoans[1]
                   ELSE IF activeLoans[k].interest_rate >= reduce(k - 1).interest_rate
                   THEN activeLoans[k] ELSE reduce(k - 1)
      highestInterestLoan == reduce(Len(activeLoans))
      monthlyPayment == calculateMonthlyPayment(RatOf(highestInterestLoan.principal, 2),
                                                RatOf(highestInterestLoan.interest_rate, 2),
                                                highestInterestLoan.term_months)
      \* Math.floor(remainingBalance / monthlyPayment), from k upwards
      RECURSIVE floor(_)
      floor(k) == IF RatLess(remainingBalance, RatMul(RatOf(k + 1, 1), monthlyPayment))
                  THEN k ELSE floor(k + 1)
      extraPayment == RatMul(RatMul(RatOf(floor(0), 1), monthlyPayment), RatOf(1, 2))
  IN  IF ~ RatLess(RatOf(0, 1), remainingBalance) THEN Insight("null", "", RatOf(0, 1))
      ELSE IF activeLoans = << >> THEN Insight("null", "", RatOf(0, 1))
      ELSE IF ~ RatLess(remainingBalance, RatMul(monthlyPayment, RatOf(3, 2)))
      THEN Insight("loan_acceleration", "success", extraPayment)
      ELSE Insight("null", "", RatOf(0, 1))

suggestLoanAcceleration(remainingBalance, loanList) ==
  LET monthsSinceStart(loan) == (YearOf(today) - YearOf(loan.start_date)) * 12
                                + (MonthOf(today) - MonthOf(loan.start_date))
      activeLoans == SelectSeq(loanList, LAMBDA loan : monthsSinceStart(loan) < loan.term_months)
      RECURSIVE reduce(_)
      reduce(k) == IF k = 1 THEN activeLoans[1]
                   ELSE IF activeLoans[k].interest_rate > reduce(k - 1).interest_rate
                   THEN activeLoans[k] ELSE reduce(k - 1)
      highestInterestLoan == reduce(Len(activeLoans))
      monthlyPayment == calculateMonthlyPayment(RatOf(highestInterestLoan.principal, 2),
                                                RatOf(highestInterestLoan.interest_rate, 2),
                                                highestInterestLoan.term_months)
      \* Math.floor(remainingBalance / monthlyPayment), from k upwards
      RECURSIVE floor(_)
      floor(k) == IF RatLess(remainingBalance, RatMul(RatOf(k + 1, 1), monthlyPayment))
                  THEN k ELSE floor(k + 1)
      extraPayment == RatMul(RatMul(RatOf(floor(0), 1), monthlyPayment), RatOf(1, 2))
  IN  IF ~ RatLess(RatOf(0, 1), remainingBalance) THEN Insight("null", "", RatOf(0, 1))
      ELSE IF activeLoans = << >> THEN Insight("null", "", RatOf(0, 1))
      ELSE IF ~ RatLess(remainingBalance, RatMul(monthlyPayment, RatOf(3, 2)))
      THEN Insight("loan_acceleration", "success", extraPayment)
      ELSE Insight("null", "", RatOf(0, 1))

\* compareMonthOverMonth counting a change of exactly 10% as significant
compareMonthOverMonth_AtTenPercent(currentIncome, currentExpenses, previousIncome, previousExpenses) ==
  LET Change(current, previous) ==
        IF RatLess(RatOf(0, 1), previous)
        THEN RatMul(RatMul(RatAdd(current, [previous EXCEPT !.neg = ~ @]), RatInv(previous)),
                    RatOf(100, 1))
        ELSE RatOf(0, 1)
      incomeChange == Change(currentIncome, previousIncome)
      expenseChange == Change(currentExpenses, previousExpenses)
      Significant(change) == ~ RatLess([change EXCEPT !.neg = FALSE], RatOf(10, 1))
  IN  IF previousIncome.num = << >> /\ previousExpenses.num = << >>
      THEN Insight("null", "", RatOf(0, 1))
      ELSE IF Significant(incomeChange) \/ Significant(expenseChange)
      THEN Insight("month_over_month",
                   IF RatLess(incomeChange, RatOf(-10, 1)) \/ RatLess(RatOf(10, 1), expenseChange)
                   THEN "warning" ELSE "info", RatOf(0, 1))
      ELSE Insight("null", "", RatOf(0, 1))

compareMonthOverMonth(currentIncome, currentExpenses, previousIncome, previousExpenses) ==
  LET Change(current, previous) ==
        IF RatLess(RatOf(0, 1), previous)
        THEN RatMul(RatMul(RatAdd(current, [previous EXCEPT !.neg = ~ @]), RatInv(previous)),
                    RatOf(100, 1))
        ELSE RatOf(0, 1)
      incomeChange == Change(currentIncome, previousIncome)
      expenseChange == Change(currentExpenses, previousExpenses)
      Significant(change) == RatLess(RatOf(10, 1), [change EXCEPT !.neg = FALSE])
  IN  IF previousIncome.num = << >> /\ previousExpenses.num = << >>
      THEN Insight("null", "", RatOf(0, 1))
      ELSE IF Significant(incomeChange) \/ Significant(expenseChange)
      THEN Insight("month_over_month",
                   IF RatLess(incomeChange, RatOf(-10, 1)) \/ RatLess(RatOf(10, 1), expenseChange)
                   THEN "warning" ELSE "info", RatOf(0, 1))
      ELSE Insight("null", "", RatOf(0, 1))

\* ------------------------------------------------------------------------
\* Monthly totals and the dashboard
\* ------------------------------------------------------------------------
RECURSIVE SUM(_)
\* SUM(amount) over a set of rows
SUM(rows) ==
  IF rows = {} THEN 0
  ELSE LET r == CHOOSE x \in rows : TRUE IN r.amount + SUM(rows \ {r})

\* the rows of a month: date >= v_start_date AND date <= v_end_date
InMonth(rows, v_user_id, v_start_date) ==
  {r \in rows : r.user_id = v_user_id /\ r.date >= v_start_date /\ r.date <= LastOfMonth(v_start_date)}

get_total_monthly_spend(p_clerk_user_id, p_year, p_month) ==
  LET v_user_id == get_user_id_from_clerk(p_clerk_user_id)
      v_start_date == MAKE_DATE(p_year, p_month, 1)
  IN  IF v_user_id = NoUser THEN [err |-> MsgUserNotFound, total |-> 0]
      ELSE IF v_start_date = DateError THEN [err |-> MsgDateRange, total |-> 0]
      ELSE [err |-> NoErr, total |-> SUM(InMonth(expenses, v_user_id, v_start_date))]

get_total_monthly_income(p_clerk_user_id, p_year, p_month) ==
  LET v_user_id == get_user_id_from_clerk(p_clerk_user_id)
      v_start_date == MAKE_DATE(p_year, p_month, 1)
  IN  IF v_user_id = NoUser THEN [err |-> MsgUserNotFound, total |-> 0]
      ELSE IF v_start_date = DateError THEN [err |-> MsgDateRange, total |-> 0]
      ELSE [err |-> NoErr, total |-> SUM(InMonth(income, v_user_id, v_start_date))]

\* one row for each category of the user that has expenses in the month
get_monthly_expenses_by_category(p_clerk_user_id, p_year, p_month) ==
  LET v_user_id == get_user_id_from_clerk(p_clerk_user_id)
      v_start_date == MAKE_DATE(p_year, p_month, 1)
      Of(c) == {e \in InMonth(expenses, v_user_id, v_start_date) : e.category_id = c.id}
  IN  IF v_user_id = NoUser THEN [err |-> MsgUserNotFound, rows |-> {}]
      ELSE IF v_start_date = DateError THEN [err |-> MsgDateRange, rows |-> {}]
      ELSE [err |-> NoErr,
            rows |-> {[category_id |-> c.id, category_name |-> c.name, category_icon |-> c.icon,
                       category_color |-> c.color, total_amount |-> SUM(Of(c)),
                       expense_count |-> Cardinality(Of(c))] :
                        c \in {x \in categories : x.user_id = v_user_id /\ Of(x) # {}}}]

\* parseInt(c.req.query('year') || <current year>) and the same for the month;
\* a text that is no number parses to NaN
MonthQuery(year, month) ==
  [year |-> IF year.t = "num" THEN year.n \div 2 ELSE YearOf(today),
   month |-> IF month.t = "num" THEN month.n \div 2 ELSE MonthOf(today),
   invalid |-> \/ year.t \notin {"num", "undef"} \/ month.t \notin {"num", "undef"}
               \/ (month.t = "num" /\ (month.n \div 2 < 1 \/ month.n \div 2 > 12))]

\* a rejected Promise.all: the catch block sees the error of whichever helper
\* failed first
Rejected(failed, helpers) ==
  {Reply(500, failed, Wrap(x[1], x[2]), {}) : x \in {y \in helpers : y[2] # NoErr}}

\* expensesRouter.get('/monthly')
GetMonthlyExpenses(u, year, month, up) ==
  LET q == MonthQuery(year, month)
      byCategory == get_monthly_expenses_by_category(u, q.year, q.month)
      spend == get_total_monthly_spend(u, q.year, q.month)
      rejected == Rejected(<<"Failed", "to", "get", "monthly", "expenses">>,
                    {<<<<"Failed", "to", "get", "monthly", "expenses:">>, Thrown(up, byCategory.err)>>,
                     <<<<"Failed", "to", "get", "total", "monthly", "spend:">>, Thrown(up, spend.err)>>})
  IN  /\ \E h \in Authorization(u) : req' = [op |-> "getMonthlyExpenses", user |-> u, auth |-> h,
                                              year |-> year, month |-> month, up |-> up]
      /\ IF u = NoUser THEN resp' = Unauthorized /\ rpc' = NoRpc
         ELSE IF q.invalid
         THEN resp' = Reply(400, <<"Invalid", "year", "or", "month">>, NoErr, {}) /\ rpc' = NoRpc
         ELSE /\ rpc' = Rpc("get_monthly_expenses_by_category", Thrown(up, byCategory.err))
              /\ IF rejected = {}
                 THEN resp' = Reply(200, NoErr, NoErr,
                                    {[year |-> q.year, month |-> q.month,
                                      expensesByCategory |-> byCategory.rows,
                                      totalSpend |-> spend.total]})
                 ELSE resp' \in rejected
      /\ UNCHANGED <<tables, seq, today, genLog, txn>>

\* incomeRouter.get('/monthly')
GetMonthlyIncome(u, year, month, up) ==
  LET q == MonthQuery(year, month)
      total == get_total_monthly_income(u, q.year, q.month)
      err == Thrown(up, total.err)
  IN  /\ \E h \in Authorization(u) : req' = [op |-> "getMonthlyIncome", user |-> u, auth |-> h,
                                              year |-> year, month |-> month, up |-> up]
      /\ IF u = NoUser THEN resp' = Unauthorized /\ rpc' = NoRpc
         ELSE IF q.invalid
         THEN resp' = Reply(400, <<"Invalid", "year", "or", "month">>, NoErr, {}) /\ rpc' = NoRpc
         ELSE /\ rpc' = Rpc("get_total_monthly_income", err)
              /\ resp' = IF err = NoErr
                         THEN Reply(200, NoErr, NoErr,
                                    {[year |-> q.year, month |-> q.month, totalIncome |-> total.total]})
                         ELSE Reply(500, <<"Failed", "to", "get", "monthly", "income">>,
                                    Wrap(<<"Failed", "to", "get", "total", "monthly", "income:">>, err), {})
      /\ UNCHANGED <<tables, seq, today, genLog, txn>>

RECURSIVE OrderedLoans(_)
\* ORDER BY l.start_date DESC, l.created_at DESC
OrderedLoans(rows) ==
  IF rows = {} THEN << >>
  ELSE LET r == CHOOSE x \in rows : \A y \in rows :
                  x.start_date > y.start_date \/ (x.start_date = y.start_date /\ x.id >= y.id)
       IN  <<r>> \o OrderedLoans(rows \ {r})

\* dashboardRouter.get('/monthly')
GetDashboard(u, year, month, up) ==
  LET q == MonthQuery(year, month)
      totalIncome == get_total_monthly_income(u, q.year, q.month)
      totalExpenses == get_total_monthly_spend(u, q.year, q.month)
      expensesByCategory == get_monthly_expenses_by_category(u, q.year, q.month)
      loanRows == get_loans_for_user(u)
      rejected == Rejected(<<"Failed", "to", "get", "dashboard", "data">>,
                    {<<<<"Failed", "to", "get", "total", "monthly", "income:">>, Thrown(up, totalIncome.err)>>,
                     <<<<"Failed", "to", "get", "total", "monthly", "spend:">>, Thrown(up, totalExpenses.err)>>,
                     <<<<"Failed", "to", "get", "monthly", "expenses:">>, Thrown(up, expensesByCategory.err)>>,
                     <<<<"Failed", "to", "get", "loans:">>, Thrown(up, loanRows.err)>>})
      loanObligations == calculateTotalLoanObligations(OrderedLoans(loanRows.rows))
      WithBalance(loan) ==
        LET monthsSinceStart == (YearOf(today) - YearOf(loan.start_date)) * 12
                                + (MonthOf(today) - MonthOf(loan.start_date))
            isActive == monthsSinceStart < loan.term_months
            monthlyPayment == IF isActive
                              THEN calculateMonthlyPayment(RatOf(loan.principal, 2),
                                                           RatOf(loan.interest_rate, 2), loan.term_months)
                              ELSE RatOf(0, 1)
            balance == RatAdd(RatOf(loan.principal, 2),
                              RatMul(RatOf(0 - monthsSinceStart, 1), monthlyPayment))
        IN  [id |-> loan.id, description |-> loan.description, principal |-> loan.principal,
             interest_rate |-> loan.interest_rate, term_months |-> loan.term_months,
             start_date |-> loan.start_date, monthly_payment |-> monthlyPayment,
             remaining_balance |-> IF isActive /\ ~ RatLess(balance, RatOf(0, 1)) THEN balance
                                   ELSE RatOf(0, 1),
             is_active |-> isActive]
  IN  /\ \E h \in Authorization(u) : req' = [op |-> "getDashboard", user |-> u, auth |-> h,
                                              year |-> year, month |-> month, up |-> up]
      /\ IF u = NoUser THEN resp' = Unauthorized /\ rpc' = NoRpc
         ELSE IF q.invalid
         THEN resp' = Reply(400, <<"Invalid", "year", "or", "month">>, NoErr, {}) /\ rpc' = NoRpc
         ELSE /\ rpc' = Rpc("get_total_monthly_income", Thrown(up, totalIncome.err))
              /\ IF rejected = {}
                 THEN resp' = Reply(200, NoErr, NoErr,
                          {[year |-> q.year, month |-> q.month,
                            income |-> totalIncome.total, expenses |-> totalExpenses.total,
                            loanObligations |-> loanObligations,
                            remainingBalance |->
                              RatAdd(RatOf(totalIncome.total - totalExpenses.total, 2),
                                     [loanObligations EXCEPT !.neg = ~ @]),
                            expensesByCategory |-> expensesByCategory.rows,
                            loans |-> {WithBalance(l) : l \in loanRows.rows}]})
                 ELSE resp' \in rejected
      /\ UNCHANGED <<tables, seq, today, genLog, txn>>

\* the month before (year, month) that always stays in the year
PreviousMonth_SameYear(year, month) ==
  [year |-> year, month |-> IF month - 1 < 1 THEN 12 ELSE month - 1]

\* prevYear and prevMonth of getInsights
PreviousMonth(year, month) ==
  [year |-> IF month - 1 < 1 THEN year - 1 ELSE year,
   month |-> IF month - 1 < 1 THEN 12 ELSE month - 1]

\* getInsights(supabaseService, clerkUserId, year, month): the insights of a
\* month, with the loanObligations and remainingBalance they were made from.
\* upPrev.income and upPrev.expenses tell whether the store answers the fetch
\* of the previous month's income total and of its expense total.
GetInsights(u, year, month, up, upPrev) ==
  LET currentIncome == get_total_monthly_income(u, year, month)
      currentExpenses == get_total_monthly_spend(u, year, month)
      loanRows == get_loans_for_user(u)
      thrown == {Wrap(x[1], x[2]) : x \in {y \in
                   {<<<<"Failed", "to", "get", "total", "monthly", "income:">>, Thrown(up, currentIncome.err)>>,
                    <<<<"Failed", "to", "get", "total", "monthly", "spend:">>, Thrown(up, currentExpenses.err)>>,
                    <<<<"Failed", "to", "get", "loans:">>, Thrown(up, loanRows.err)>>} : y[2] # NoErr}}
      loanList == OrderedLoans(loanRows.rows)
      RECURSIVE reduce(_)
      reduce(k) ==
        IF k = 0 THEN RatOf(0, 1)
        ELSE LET loan == loanList[k]
                 monthsSinceStart == (YearOf(today) - YearOf(loan.start_date)) * 12
                                     + (MonthOf(today) - MonthOf(loan.start_date))
             IN  IF monthsSinceStart < loan.term_months
                 THEN RatAdd(reduce(k - 1),
                             calculateMonthlyPayment(RatOf(loan.principal, 2),
                                                     RatOf(loan.interest_rate, 2), loan.term_months))
                 ELSE reduce(k - 1)
      loanObligations == reduce(Len(loanList))
      remainingBalance == RatAdd(RatOf(currentIncome.total - currentExpenses.total, 2),
                                 [loanObligations EXCEPT !.neg = ~ @])
      prev == PreviousMonth(year, month)
      prevInc == get_total_monthly_income(u, prev.year, prev.month)
      prevExp == get_total_monthly_spend(u, prev.year, prev.month)
      \* .catch(() => 0)
      previousIncome == IF Thrown(upPrev.income, prevInc.err) = NoErr THEN prevInc.total ELSE 0
      previousExpenses == IF Thrown(upPrev.expenses, prevExp.err) = NoErr THEN prevExp.total ELSE 0
      insights == SelectSeq(<<detectOverspending(RatOf(currentIncome.total, 2),
                                                 RatOf(currentExpenses.total, 2), loanObligations),
                              suggestLoanAcceleration(remainingBalance, loanList),
                              compareMonthOverMonth(RatOf(currentIncome.total, 2),
                                                    RatOf(currentExpenses.total, 2),
                                                    RatOf(previousIncome, 2), RatOf(previousExpenses, 2))>>,
                            LAMBDA i : i.type # "null")
  IN  /\ req' = [op |-> "getInsights", user |-> u, year |-> year, month |-> month,
                 up |-> up, upPrev |-> upPrev]
      /\ rpc' = Rpc("get_total_monthly_income", Thrown(up, currentIncome.err))
      /\ IF thrown = {}
         THEN resp' = [NoResp EXCEPT !.rows = {[insights |-> insights,
                                                loanObligations |-> loanObligations,
                                                remainingBalance |-> remainingBalance]}]
         ELSE resp' \in {[NoResp EXCEPT !.error = e] : e \in thrown}
      /\ UNCHANGED <<tables, seq, today, genLog, txn>>

\* ------------------------------------------------------------------------
\* Specification SpecAuth: every endpoint, with and without a verified token
\* ------------------------------------------------------------------------
NextAuth ==
  \E u \in {NoUser, "A"} :
    \/ GetMe(u)
    \/ GetCategories(u, TRUE)
    \/ CreateCategory(u, ([Body EXCEPT !.name = JText("Gym")]), TRUE)
    \/ UpdateCategory(u, JUuid(Len(DefaultCategories) + 1), ([Body EXCEPT !.name = JText("Club")]), TRUE)
    \/ DeleteCategory(u, JUuid(Len(DefaultCategories) + 1), TRUE)
    \/ GetExpenses(u, JUndef, JUndef, TRUE)
    \/ GetMonthlyExpenses(u, JUndef, JUndef, TRUE)
    \/ Created < MaxRows /\ CreateExpense(u, ([Body EXCEPT !.category_id = JUuid(1), !.amount = JNum(2 * 10), !.date = JDate(20230105)]), TRUE)
    \/ UpdateExpense(u, JUuid(1), ([Body EXCEPT !.category_id = JUndef, !.amount = JNum(2 * 20), !.date = JUndef]), TRUE)
    \/ DeleteExpense(u, JUuid(1), TRUE)
    \/ GetIncome(u, JUndef, JUndef, TRUE)
    \/ \E month \in {JUndef, JNum(2 * 13)} : GetMonthlyIncome(u, JUndef, month, TRUE)
    \/ Created < MaxRows /\ CreateIncome(u, ([Body EXCEPT !.amount = JNum(2 * 10), !.date = JDate(20230105)]), TRUE)
    \/ UpdateIncome(u, JUuid(1), ([Body EXCEPT !.amount = JNum(2 * 20), !.date = JUndef]), TRUE)
    \/ DeleteIncome(u, JUuid(1), TRUE)
    \/ GetLoans(u, TRUE)
    \/ Created < MaxRows /\ CreateLoan(u, ([Body EXCEPT !.principal = JNum(2 * 10), !.interest_rate = JNum(1), !.term_months = JNum(2 * 12), !.start_date = JDate(20230105)]), TRUE)
    \/ UpdateLoan(u, JUuid(1), ([Body EXCEPT !.principal = JNum(2 * 20), !.interest_rate = JUndef, !.term_months = JUndef, !.start_date = JUndef]), TRUE)
    \/ DeleteLoan(u, JUuid(1), TRUE)
    \/ GetRecurringItems(u, FALSE, TRUE)
    \/ Created < MaxRows /\ CreateRecurringItem(u, ([Body EXCEPT !.category_id = JUuid(1), !.amount = JNum(2 * 10), !.day_of_month = JNum(2 * 1), !.start_date = JDate(20230105)]), TRUE)
    \/ UpdateRecurringItem(u, JUuid(1), Deactivate, TRUE)
    \/ DeleteRecurringItem(u, JUuid(1), TRUE)
    \/ Generate(u, JUndef, JUndef, TRUE)
    \/ \E up \in BOOLEAN : GetDashboard(u, JUndef, JUndef, up)

SpecAuth == InitApi /\ [][NextAuth]_vars

\* C14: every endpoint answers 401 'Unauthorized', and makes no call to the
\* store, when the request has no Authorization header, a header that does
\* not start with 'Bearer ', or a token that fails verification
C14_UnverifiedIsUnauthorized ==
  [][(req'.auth.scheme # "Bearer " \/ ~ req'.auth.verified)
       => /\ resp'.status = 401 /\ resp'.error = <<"Unauthorized">>
          /\ rpc' = NoRpc /\ tables' = tables /\ seq' = seq]_vars

C14_Witness ==
  /\ req.op = "generate" /\ resp.status = 401
  /\ req.auth.scheme = "Bearer " /\ ~ req.auth.verified /\ req.auth.sub = "A"
  /\ \E i \in recurring_items : i.user_id = "A" /\ i.is_active

\* ------------------------------------------------------------------------
\* Specification SpecCalc: the payment and insight functions, each applied
\* once to arguments drawn from the sets below
\* ------------------------------------------------------------------------
InitCalc ==
  /\ users = {} /\ categories = {} /\ expenses = {} /\ income = {}
  /\ loans = {} /\ recurring_items = {}
  /\ seq = [category |-> 1, expense |-> 1, income |-> 1, loan |-> 1, item |-> 1]
  /\ today \in {20230110, 20230215}
  /\ resp = NoResp /\ rpc = NoRpc /\ genLog = << >> /\ txn = [t \in TxnIds |-> Idle]
  /\ LET Amounts(ns) == {RatOf(n, 1) : n \in ns}
         \* rows of the loans table: principal 1200, rate 0 or 1.0
         LoanLists == UNION {[1..n -> [principal : {2 * 1200}, interest_rate : {0, 2},
                                      term_months : {1, 12},
                                      start_date : {20220105, 20230105, 20230305}]] :
                               n \in 0..MaxLoans}
     IN  \/ req \in [op : {"calculateMonthlyPayment"},
                     principal : Amounts({1000, 12000}) \cup {RatOf(1, 100)},
                     annualInterestRate : {RatOf(0, 1), RatOf(6, 100), RatOf(1, 2), RatOf(1, 1)},
                     termMonths : {0, 1, 12}]
         \/ req \in [op : {"calculateTotalLoanObligations"}, loans : LoanLists]
         \/ req \in [op : {"detectOverspending"}, income : Amounts({0, 1000}),
                     expenses : Amounts({0, 650, 700, 701, 850, 900, 901, 950, 1000, 1001}),
                     loanObligations : Amounts({0, 50}) \cup {RatOf(1, 3)}]
         \/ req \in [op : {"suggestLoanAcceleration"},
                     remainingBalance : Amounts({-1, 0, 100, 149, 150, 250, 1000}) \cup {RatOf(1, 3)},
                     loans : LoanLists]
         \/ req \in [op : {"compareMonthOverMonth"},
                     currentIncome : Amounts({0, 89, 90, 100, 110, 111}),
                     currentExpenses : Amounts({0, 89, 90, 100, 110, 111}),
                     previousIncome : Amounts({0, 100}), previousExpenses : Amounts({0, 100})]

\* the function returns: its value is the one row of the answer
Return(result) ==
  /\ resp = NoResp
  /\ resp' = [NoResp EXCEPT !.rows = {result}]
  /\ UNCHANGED <<tables, seq, today, req, rpc, genLog, txn>>

NextCalc ==
  \/ /\ req.op = "calculateMonthlyPayment"
     /\ Return(calculateMonthlyPayment(req.principal, req.annualInterestRate, req.termMonths))
  \/ /\ req.op = "calculateTotalLoanObligations"
     /\ Return(calculateTotalLoanObligations(req.loans))
  \/ /\ req.op = "detectOverspending"
     /\ Return(detectOverspending(req.income, req.expenses, req.loanObligations))
  \/ /\ req.op = "suggestLoanAcceleration"
     /\ Return(suggestLoanAcceleration(req.remainingBalance, req.loans))
  \/ /\ req.op = "compareMonthOverMonth"
     /\ Return(compareMonthOverMonth(req.currentIncome, req.currentExpenses,
                                     req.previousIncome, req.previousExpenses))

SpecCalc == InitCalc /\ [][NextCalc]_vars

\* x = y and x <= y on numbers
RatEq(x, y) == RatAdd(x, [y EXCEPT !.neg = ~ @]).num = << >>
RatLeq(x, y) == ~ RatLess(y, x)

\* C15: calculateMonthlyPayment returns 0 for a term of 0, whatever the rate,
\* and exactly principal / term for a rate of 0, a term > 0 and a principal
\* > 0; no call divides by zero
C15_ZeroTermThenZeroRate ==
  (req.op = "calculateMonthlyPayment" /\ resp # NoResp) =>
    \A result \in resp.rows :
      /\ result.den # << >>
      /\ req.termMonths = 0 => RatEq(result, RatOf(0, 1))
      /\ (req.termMonths > 0 /\ RatEq(req.annualInterestRate, RatOf(0, 1))
          /\ RatLess(RatOf(0, 1), req.principal))
           => RatEq(RatMul(result, RatOf(req.termMonths, 1)), req.principal)

C15_Witness ==
  /\ req.op = "calculateMonthlyPayment" /\ resp # NoResp
  /\ req.termMonths = 0 /\ RatEq(req.annualInterestRate, RatOf(0, 1))

\* C16 as stated: 12000 at 0.06 over 12 months gives 1030.20 to two decimals
C16_Payment1030_20 ==
  (/\ req.op = "calculateMonthlyPayment" /\ resp # NoResp
   /\ RatEq(req.principal, RatOf(12000, 1)) /\ RatEq(req.annualInterestRate, RatOf(6, 100))
   /\ req.termMonths = 12)
    => \A result \in resp.rows :
         RatLeq(RatOf(1030195, 1000), result) /\ RatLess(result, RatOf(1030205, 1000))

\* C16: for 12000 at 0.06 over 12 months calculateMonthlyPayment, the annuity
\* formula principal * (r * (1+r)^n) / ((1+r)^n - 1) with r = annualRate / 12,
\* yields 1032.80 to two decimals (1032.79715...)
C16_AnnuityPayment1032_80 ==
  (/\ req.op = "calculateMonthlyPayment" /\ resp # NoResp
   /\ RatEq(req.principal, RatOf(12000, 1)) /\ RatEq(req.annualInterestRate, RatOf(6, 100))
   /\ req.termMonths = 12)
    => \A result \in resp.rows :
         /\ RatLeq(RatOf(1032795, 1000), result) /\ RatLess(result, RatOf(1032805, 1000))
         /\ RatLeq(RatOf(103279715, 100000), result) /\ RatLess(result, RatOf(103279716, 100000))

C16_Witness ==
  /\ req.op = "calculateMonthlyPayment" /\ resp # NoResp
  /\ RatEq(req.principal, RatOf(12000, 1)) /\ RatEq(req.annualInterestRate, RatOf(6, 100))
  /\ req.termMonths = 12

\* ------------------------------------------------------------------------
\* Specification SpecDash: one user, loans, the dashboard and the insights
\* ------------------------------------------------------------------------
NextDash ==
  \/ GetMe("A")
  \/ \E r \in {JNum(0), JNum(2)}, d \in {JDate(20220105), JDate(20230105), JDate(20230305)} :
       CreateLoan("A", [Body EXCEPT !.principal = JNum(2 * 1200), !.interest_rate = r,
                                    !.term_months = JNum(2 * 12), !.start_date = d], TRUE)
  \/ \E up \in BOOLEAN : GetDashboard("A", JUndef, JUndef, up)
  \/ \E up \in BOOLEAN, upPrev \in {[income |-> TRUE, expenses |-> TRUE],
                                     [income |-> FALSE, expenses |-> FALSE]} :
       GetInsights("A", YearOf(today), MonthOf(today), up, upPrev)

SpecDash == Init /\ [][NextDash]_vars

\* the activity test of the claim, and the payments of the active loans of a set
Active(l) ==
  (YearOf(today) - YearOf(l.start_date)) * 12 + (MonthOf(today) - MonthOf(l.start_date))
    < l.term_months
RECURSIVE ActivePayments(_)
ActivePayments(rows) ==
  IF rows = {} THEN RatOf(0, 1)
  ELSE LET l == CHOOSE x \in rows : TRUE
           rest == ActivePayments(rows \ {l})
       IN  IF Active(l)
           THEN RatAdd(rest, calculateMonthlyPayment(RatOf(l.principal, 2),
                                                     RatOf(l.interest_rate, 2), l.term_months))
           ELSE rest

\* C17: a loan is active iff the months elapsed since its start are fewer than
\* term_months; the loanObligations of the dashboard (calculateTotalLoanObligations)
\* and of getInsights are the sum of calculateMonthlyPayment over exactly the
\* active loans of the user, and the dashboard marks exactly those loans active
C17_ObligationsOverActiveLoans ==
  (req.op \in {"getDashboard", "getInsights"} /\ resp.rows # {}) =>
    \A r \in resp.rows :
      /\ RatEq(r.loanObligations, ActivePayments({l \in loans : l.user_id = req.user}))
      /\ req.op = "getDashboard" =>
           /\ {l.id : l \in r.loans} = {l.id : l \in {x \in loans : x.user_id = req.user}}
           /\ \A l \in r.loans :
                /\ l.is_active <=> \E x \in loans : x.id = l.id /\ Active(x)
                /\ ~ l.is_active => RatEq(l.monthly_payment, RatOf(0, 1))

C17_Witness ==
  /\ req.op = "getDashboard" /\ resp.status = 200
  /\ \E r \in resp.rows : RatLess(RatOf(0, 1), r.loanObligations)
  /\ \E x \in loans : x.user_id = req.user /\ Active(x)
  /\ \E x \in loans : x.user_id = req.user /\ ~ Active(x)
                      /\ (YearOf(today) - YearOf(x.start_date)) * 12
                         + (MonthOf(today) - MonthOf(x.start_date)) = x.term_months

\* ------------------------------------------------------------------------
\* The insight rules (SpecCalc)
\* ------------------------------------------------------------------------
\* n * x for an integer n
Times(n, x) == RatMul(RatOf(n, 1), x)

\* C18: with total = expenses + obligations, detectOverspending gives severity
\* error when total > income, otherwise warning when total / income > 0.9,
\* otherwise info when total / income is in (0.7, 0.9], otherwise nothing; it
\* gives at most one insight, and for income 1000, expenses 950 and
\* obligations 0 exactly one, of type overspending and severity warning
C18_OverspendingRule ==
  (req.op = "detectOverspending" /\ resp # NoResp) =>
    LET total == RatAdd(req.expenses, req.loanObligations)
        positive == RatLess(RatOf(0, 1), req.income)
        over(n) == positive /\ RatLess(Times(n, req.income), Times(10, total))
        emitted == {r \in resp.rows : r.type # "null"}
    IN  /\ Cardinality(emitted) <= 1
        /\ \A r \in emitted : r.type = "overspending"
        /\ \A r \in resp.rows :
             r.severity = IF RatLess(req.income, total) THEN "error"
                          ELSE IF over(9) THEN "warning"
                          ELSE IF over(7) THEN "info"
                          ELSE ""
        /\ \A r \in resp.rows : r.type = "null" <=> r.severity = ""
        /\ (/\ RatEq(req.income, RatOf(1000, 1)) /\ RatEq(req.expenses, RatOf(950, 1))
            /\ RatEq(req.loanObligations, RatOf(0, 1)))
             => /\ Cardinality(emitted) = 1
                /\ \A r \in emitted : r.type = "overspending" /\ r.severity = "warning"

C18_Witness ==
  /\ req.op = "detectOverspending"
  /\ RatEq(req.income, RatOf(1000, 1)) /\ RatEq(req.expenses, RatOf(950, 1))
  /\ RatEq(req.loanObligations, RatOf(0, 1))
  /\ \E r \in resp.rows : r.type = "overspending" /\ r.severity = "warning"

\* C19: suggestLoanAcceleration gives nothing unless the remaining balance is
\* > 0 and some loan is active; it looks at the one active loan of highest
\* interest rate, the earliest in the list on ties, suggests iff the remaining
\* balance is >= 1.5 times that loan's monthly payment, sizes the extra
\* payment as floor(remaining / payment) * payment * 0.5, and gives at most
\* one suggestion however many loans qualify
C19_LoanAccelerationRule ==
  (req.op = "suggestLoanAcceleration" /\ resp # NoResp) =>
    LET remaining == req.remainingBalance
        payment(l) == calculateMonthlyPayment(RatOf(l.principal, 2), RatOf(l.interest_rate, 2),
                                              l.term_months)
        active == {i \in DOMAIN req.loans : Active(req.loans[i])}
        chosen == {i \in active :
                     /\ \A j \in active : req.loans[j].interest_rate <= req.loans[i].interest_rate
                     /\ \A j \in active : j < i => req.loans[j].interest_rate < req.loans[i].interest_rate}
        emitted == {r \in resp.rows : r.type # "null"}
        MaxQuotient == 10
    IN  /\ Cardinality(emitted) <= 1
        /\ \A r \in emitted : r.type = "loan_acceleration"
        /\ (~ RatLess(RatOf(0, 1), remaining) \/ active = {}) => emitted = {}
        /\ (RatLess(RatOf(0, 1), remaining) /\ active # {}) =>
             /\ Cardinality(chosen) = 1
             /\ \A i \in chosen :
                  /\ emitted # {} <=> RatLeq(Times(3, payment(req.loans[i])), Times(2, remaining))
                  /\ \A r \in emitted :
                       \E k \in 0..MaxQuotient :
                         /\ RatLeq(Times(k, payment(req.loans[i])), remaining)
                         /\ RatLess(remaining, Times(k + 1, payment(req.loans[i])))
                         /\ RatEq(Times(2, r.extraPayment), Times(k, payment(req.loans[i])))

\* two active loans of one rate and different payments, both within reach of
\* the remaining balance's 1.5 times: the first is the one suggested
C19_Witness ==
  /\ req.op = "suggestLoanAcceleration"
  /\ Len(req.loans) = 2
  /\ Active(req.loans[1]) /\ Active(req.loans[2])
  /\ req.loans[1].interest_rate = req.loans[2].interest_rate
  /\ req.loans[1].term_months = 12 /\ req.loans[2].term_months = 1
  /\ RatEq(req.remainingBalance, RatOf(250, 1))
  /\ \E r \in resp.rows : r.type = "loan_acceleration" /\ RatEq(r.extraPayment, RatOf(100, 1))

\* C20: compareMonthOverMonth gives nothing when previousIncome and
\* previousExpenses are both 0, whatever the current values; otherwise it
\* gives an insight iff the percentage change of income or of expenses
\* exceeds 10% in absolute value, of severity warning when income dropped by
\* more than 10% or expenses rose by more than 10% and info otherwise.  A
\* percentage change is taken against a previous value > 0.
C20_MonthOverMonthRule ==
  (req.op = "compareMonthOverMonth" /\ resp # NoResp) =>
    LET rose(current, previous) == /\ RatLess(RatOf(0, 1), previous)
                                   /\ RatLess(Times(11, previous), Times(10, current))
        dropped(current, previous) == /\ RatLess(RatOf(0, 1), previous)
                                      /\ RatLess(Times(10, current), Times(9, previous))
        noPrior == /\ RatEq(req.previousIncome, RatOf(0, 1))
                   /\ RatEq(req.previousExpenses, RatOf(0, 1))
        significant == \/ rose(req.currentIncome, req.previousIncome)
                       \/ dropped(req.currentIncome, req.previousIncome)
                       \/ rose(req.currentExpenses, req.previousExpenses)
                       \/ dropped(req.currentExpenses, req.previousExpenses)
        emitted == {r \in resp.rows : r.type # "null"}
    IN  /\ Cardinality(emitted) <= 1
        /\ noPrior => emitted = {}
        /\ ~ noPrior => (emitted # {} <=> significant)
        /\ \A r \in emitted :
             /\ r.type = "month_over_month"
             /\ r.severity = IF \/ dropped(req.currentIncome, req.previousIncome)
                                \/ rose(req.currentExpenses, req.previousExpenses)
                             THEN "warning" ELSE "info"

\* income fell from 100 to 89 with expenses unchanged: one warning
C20_Witness ==
  /\ req.op = "compareMonthOverMonth"
  /\ RatEq(req.previousIncome, RatOf(100, 1)) /\ RatEq(req.previousExpenses, RatOf(100, 1))
  /\ RatEq(req.currentIncome, RatOf(89, 1)) /\ RatEq(req.currentExpenses, RatOf(100, 1))
  /\ \E r \in resp.rows : r.type = "month_over_month" /\ r.severity = "warning"

\* ------------------------------------------------------------------------
\* Specification SpecIns: one user with expenses, income and loans in the
\* current and the previous month, and the insights of the current month
\* ------------------------------------------------------------------------
NextIns ==
  \/ GetMe("A")
  \/ \E d \in {JDate(20221220), JDate(20230105), JDate(20230205)} :
       CreateExpense("A", [Body EXCEPT !.category_id = JUuid(1), !.amount = JNum(2 * 100),
                                       !.date = d], TRUE)
  \/ \E d \in {JDate(20221220), JDate(20230105), JDate(20230205)} :
       CreateIncome("A", [Body EXCEPT !.amount = JNum(2 * 150), !.date = d], TRUE)
  \/ CreateLoan("A", [Body EXCEPT !.principal = JNum(2 * 120), !.interest_rate = JNum(0),
                                  !.term_months = JNum(2 * 12), !.start_date = JDate(20230105)], TRUE)
  \/ \E up \in BOOLEAN, upPrev \in [income : BOOLEAN, expenses : BOOLEAN] :
       GetInsights("A", YearOf(today), MonthOf(today), up, upPrev)

SpecIns == Init /\ [][NextIns]_vars

\* the total of the rows of req.user dated in month m of year y, as a number
MonthTotal(rows, y, m) == RatOf(SUM(InMonth(rows, req.user, MAKE_DATE(y, m, 1))), 2)

\* the insights of the given types, in the order of the answer
OfTypes(insights, types) == SelectSeq(insights, LAMBDA i : i.type \in types)

\* C21: when the fetch of the previous month's income total, of its expense
\* total, or of both fails, getInsights still returns, its result holds no
\* month_over_month insight, and the overspending and loan_acceleration
\* insights are those of the current month's totals alone
C21_PreviousFailureNoComparison ==
  (/\ req.op = "getInsights" /\ req.up /\ req.user \in users
   /\ ~ (req.upPrev.income /\ req.upPrev.expenses)) =>
    /\ resp.error = NoErr /\ resp.rows # {}
    /\ \A r \in resp.rows :
         /\ OfTypes(r.insights, {"month_over_month"}) = << >>
         /\ OfTypes(r.insights, {"overspending", "loan_acceleration"})
              = OfTypes(<<detectOverspending(MonthTotal(income, req.year, req.month),
                                             MonthTotal(expenses, req.year, req.month),
                                             r.loanObligations),
                          suggestLoanAcceleration(r.remainingBalance,
                            OrderedLoans({l \in loans : l.user_id = req.user}))>>,
                        {"overspending", "loan_acceleration"})

\* C22: getInsights returns at most one insight of each type, in the order
\* overspending, loan_acceleration, month_over_month; an insight is in the
\* result exactly when its own rule yields it on the month's aggregates,
\* whatever the other rules yield; the previous month is (year, month - 1),
\* or (year - 1, 12) when month = 1
C22_InsightsFixedOrder ==
  (req.op = "getInsights" /\ resp.rows # {}) =>
    \A r \in resp.rows :
      LET Rank(t) == IF t = "overspending" THEN 1 ELSE IF t = "loan_acceleration" THEN 2
                     ELSE IF t = "month_over_month" THEN 3 ELSE 0
          prevYear == IF req.month = 1 THEN req.year - 1 ELSE req.year
          prevMonth == IF req.month = 1 THEN 12 ELSE req.month - 1
          rules == <<detectOverspending(MonthTotal(income, req.year, req.month),
                                        MonthTotal(expenses, req.year, req.month), r.loanObligations),
                     suggestLoanAcceleration(r.remainingBalance,
                       OrderedLoans({l \in loans : l.user_id = req.user})),
                     compareMonthOverMonth(
                       MonthTotal(income, req.year, req.month),
                       MonthTotal(expenses, req.year, req.month),
                       IF req.upPrev.income THEN MonthTotal(income, prevYear, prevMonth) ELSE RatOf(0, 1),
                       IF req.upPrev.expenses THEN MonthTotal(expenses, prevYear, prevMonth)
                       ELSE RatOf(0, 1))>>
      IN  /\ \A i \in 1..Len(r.insights) : Rank(r.insights[i].type) >= 1
          /\ \A i, j \in 1..Len(r.insights) :
               i < j => Rank(r.insights[i].type) < Rank(r.insights[j].type)
          /\ \A k \in 1..3 :
               /\ rules[k].type # "null" => Rank(rules[k].type) = k
               /\ rules[k].type # "null" <=> \E i \in 1..Len(r.insights) : r.insights[i] = rules[k]
          /\ \A i \in 1..Len(r.insights) : r.insights[i] = rules[Rank(r.insights[i].type)]

\* C22 witness: in January all three rules fire, the comparison against
\* December of the year before
C22_Witness ==
  /\ req.op = "getInsights" /\ req.month = 1
  /\ \E r \in resp.rows : Len(r.insights) = 3
  /\ \E e \in expenses : e.user_id = req.user /\ YearOf(e.date) = req.year - 1 /\ MonthOf(e.date) = 12

\* ------------------------------------------------------------------------
\* The target month of a generate call (SpecGen)
\* ------------------------------------------------------------------------
\* every expense the call made is dated in month m of year y, and the marker
\* of its item is the first day of that month
MadeIn(r, y, m) ==
  \A x \in r.made :
    /\ YearOf(x.row.date) = y /\ MonthOf(x.row.date) = m
    /\ \A i \in recurring_items : i.id = x.item => i.last_generated_month = MAKE_DATE(y, m, 1)

\* C23 as stated: generate targets the month (Y, M) with Y the year supplied
\* by the caller, or the current year when omitted, and M the month supplied,
\* or the current month when omitted
C23_TargetPerParameter ==
  (req.op = "generate" /\ resp.status = 200) =>
    MadeIn(resp, IF req.year.t = "num" THEN req.year.n \div 2 ELSE YearOf(today),
                 IF req.month.t = "num" THEN req.month.n \div 2 ELSE MonthOf(today))

\* C23: generate targets the month (Y, M) supplied by the caller when both the
\* year and the month are supplied; when either is omitted it targets the
\* current calendar month, and a year or month supplied alone is ignored
C23_TargetBothOrCurrent ==
  (req.op = "generate" /\ resp.status = 200) =>
    IF req.year.t = "num" /\ req.month.t = "num"
    THEN MadeIn(resp, req.year.n \div 2, req.month.n \div 2)
    ELSE MadeIn(resp, YearOf(today), MonthOf(today))

\* C23 witness: a call with the month alone, which is not the current month,
\* made an expense
C23_Witness ==
  /\ req.op = "generate" /\ resp.status = 200 /\ resp.made # {}
  /\ req.year.t = "undef" /\ req.month.t = "num" /\ req.month.n \div 2 # MonthOf(today)

\* ------------------------------------------------------------------------
\* The remaining balance of a loan on the dashboard (SpecDash)
\* ------------------------------------------------------------------------
\* C24: the remaining_balance of every loan of the dashboard lies between 0
\* and the loan's principal inclusive, also for a loan that starts in a
\* future month, and is 0 for an inactive loan
C24_BalanceWithinPrincipal ==
  (req.op = "getDashboard" /\ resp.status = 200) =>
    \A r \in resp.rows : \A l \in r.loans :
      /\ RatLeq(RatOf(0, 1), l.remaining_balance)
      /\ RatLeq(l.remaining_balance, RatOf(l.principal, 2))
      /\ ~ l.is_active => RatEq(l.remaining_balance, RatOf(0, 1))

\* ------------------------------------------------------------------------
\* Generated expenses, their dates and their count (SpecGen)
\* ------------------------------------------------------------------------
\* C25: every expense created by generate is dated on or after the start_date
\* of the recurring item it comes from
C25_NotBeforeStartDate ==
  (req.op = "generate" /\ resp.status = 200) =>
    \A x \in resp.made : \A i \in recurring_items :
      i.id = x.item => x.row.date >= i.start_date

\* the items whose marker the step changed
Remarked == {i \in recurring_items : \E j \in recurring_items' :
               j.id = i.id /\ j.last_generated_month # i.last_generated_month}

\* C26: a generate call that fails leaves every table as it was, also when the
\* error is raised after an earlier item was processed; in every call the
\* expenses added are as many as the markers changed
C26_FailedGenerateChangesNothing ==
  [][req'.op = "generate" =>
       /\ resp'.status # 200 => tables' = tables
       /\ Cardinality(expenses' \ expenses) = Cardinality(Remarked)
       /\ \A i \in Remarked : i.id \in MadeItems(resp')]_vars

\* C26 witness: the call failed on the second of two due items, and the first,
\* whose day exists in the month, has no expense and no marker
C26_Witness ==
  /\ req.op = "generate" /\ resp.status = 500 /\ rpc.err = MsgDateRange
  /\ \E i, j \in recurring_items :
       /\ i.id < j.id /\ Visited(i, req) /\ Visited(j, req)
       /\ ExpenseDate(TargetKeyOf(req), i.day_of_month) # DateError
       /\ ExpenseDate(TargetKeyOf(req), j.day_of_month) = DateError
       /\ i.last_generated_month = NoDate
  /\ expenses = {}

\* C28: for every generate call that returns, generated_count + skipped_count
\* is the number of the user's recurring items that are active and started on
\* or before the last day of the target month; inactive and not-yet-started
\* items are neither generated nor counted; the call adds generated_count
\* expense rows
C28_CountsCoverDueItems ==
  [][(req'.op = "generate" /\ resp'.status = 200) =>
       LET due == {i \in recurring_items : Visited(i, req')}
       IN  /\ resp'.gen + resp'.skip = Cardinality(due)
           /\ MadeItems(resp') \cup resp'.skipped = {i.id : i \in due}
           /\ Cardinality(expenses' \ expenses) = resp'.gen
           /\ \A i \in recurring_items \ due :
                \E j \in recurring_items' : j = i]_vars

\* C28 witness: a call that generated an expense for one item and left out
\* another item of the user, inactive or not yet started
C28_Witness ==
  /\ req.op = "generate" /\ resp.status = 200 /\ resp.gen = 1 /\ resp.skip = 0
  /\ \E i \in recurring_items : i.user_id = req.user /\ ~ Visited(i, req)

\* ------------------------------------------------------------------------
\* Specification SpecLink: generated expenses edited and deleted, then
\* generation repeated
\* ------------------------------------------------------------------------
NextLink ==
  \/ GetMe("A")
  \/ \E b \in {GenBody(1, 20230105, JUndef), GenBody(15, 20221201, JText("rent"))} :
       CreateRecurringItem("A", b, TRUE)
  \/ \E m \in {1, 2} : Generate("A", JNum(2 * 2023), JNum(2 * m), TRUE)
  \/ \E i \in 1..MaxExpenses, b \in {[Body EXCEPT !.amount = JNum(2 * 35)],
                                     [Body EXCEPT !.date = JDate(20221220)]} :
       UpdateExpense("A", JUuid(i), b, TRUE)
  \/ \E i \in 1..MaxExpenses : DeleteExpense("A", JUuid(i), TRUE)

SpecLink == Init /\ [][NextLink]_vars

\* C27: editing or deleting an expense changes no recurring item, so the
\* marker of the item that generated it stays; a later generate for the month
\* of the marker creates no expense for the item and counts it as skipped
C27_MarkerIsTheOnlyLink ==
  [][/\ req'.op \in {"updateExpense", "deleteExpense"} => recurring_items' = recurring_items
     /\ (req'.op = "generate" /\ resp'.status = 200) =>
          /\ expenses' \ expenses = {x.row : x \in resp'.made}
          /\ \A i \in recurring_items :
               (Visited(i, req') /\ i.last_generated_month = TargetKeyOf(req')) =>
                 /\ i.id \in resp'.skipped
                 /\ i.id \notin MadeItems(resp')
                 /\ i \in recurring_items']_vars

\* C27 witness: the generated expenses were deleted, or moved to another month,
\* and the next generate for the same month skipped the item and created nothing
C27_Witness ==
  /\ req.op = "generate" /\ resp.status = 200
  /\ resp.gen = 0 /\ resp.skip >= 1
  /\ \A x \in expenses : (x.date \div 100) * 100 + 1 # TargetKeyOf(req)
  /\ \E i \in recurring_items : i.id \in resp.skipped /\ i.last_generated_month = TargetKeyOf(req)

\* ------------------------------------------------------------------------
\* Referential integrity of category references (SpecApi)
\* ------------------------------------------------------------------------
MsgForeignKey == <<"update", "or", "delete", "violates", "foreign", "key", "constraint">>

\* C29: every expense and every recurring item references a category that
\* exists and belongs to the same user, after any sequence of operations, and
\* generate never fails on a missing category
C29_ReferentialIntegrity ==
  /\ \A e \in expenses : \E c \in categories : c.id = e.category_id /\ c.user_id = e.user_id
  /\ \A r \in recurring_items : \E c \in categories : c.id = r.category_id /\ c.user_id = r.user_id
  /\ req.op = "generate" => rpc.err # MsgForeignKey

\* C29 witness: the delete of a category of the user's own, not a default,
\* was refused because a row references it, and the category is still there
C29_Witness ==
  /\ req.op = "deleteCategory" /\ rpc.err = MsgForeignKey /\ resp.status = 500
  /\ \E c \in categories :
       /\ c.id = req.id.n /\ c.user_id = req.user /\ ~ c.is_default
       /\ \/ \E e \in expenses : e.category_id = c.id
          \/ \E r \in recurring_items : r.category_id = c.id

\* ------------------------------------------------------------------------
\* get_or_create_user statement by statement (READ COMMITTED)
\* ------------------------------------------------------------------------
\* Every call is one transaction. The SELECT reads the committed rows. The
\* INSERT of a clerk_user_id that another transaction has inserted waits for
\* that transaction and, once it has committed, raises the unique violation
\* of users.clerk_user_id; the procedure has no handler for it.
MsgDuplicateKey == <<"duplicate", "key", "value", "violates", "unique", "constraint">>

\* usersRouter.get('/me') up to SELECT * INTO v_user FROM users WHERE clerk_user_id = ...
MeSelect(t, u) ==
  /\ txn[t].pc = "idle"
  /\ txn' = [txn EXCEPT ![t] = [Idle EXCEPT !.pc = "selected", !.req = [op |-> "me", user |-> u],
                                            !.user = get_user_id_from_clerk(u)]]
  /\ UNCHANGED <<tables, seq, today, req, resp, rpc, genLog>>

\* IF v_user IS NULL THEN INSERT, seed END IF; RETURN v_user; commit; the route answers
MeReturn(t) ==
  LET x == txn[t]
      u == x.req.user
      r == get_or_create_user(u)
      err == IF x.user = NoUser /\ u \in users THEN MsgDuplicateKey ELSE NoErr
  IN  /\ x.pc = "selected"
      /\ txn' = [txn EXCEPT ![t] = Idle]
      /\ req' = x.req
      /\ rpc' = Rpc("get_or_create_user", err)
      /\ users' = IF err = NoErr THEN r.users ELSE users
      /\ categories' = IF err = NoErr THEN r.categories ELSE categories
      /\ seq' = IF err = NoErr THEN [seq EXCEPT !.category = r.next] ELSE seq
      /\ resp' = IF err = NoErr THEN Reply(200, NoErr, NoErr, {u})
                 ELSE Reply(500, <<"Failed", "to", "get", "user">>,
                        Wrap(<<"Failed", "to", "get", "or", "create", "user:">>, err), {})
      /\ UNCHANGED <<expenses, income, loans, recurring_items, today, genLog>>

\* ------------------------------------------------------------------------
\* Specification SpecMe: two users, two concurrent requests of /api/me
\* ------------------------------------------------------------------------
NextMe ==
  \/ \E t \in TxnIds, u \in ClerkIds : MeSelect(t, u)
  \/ \E t \in TxnIds : MeReturn(t)
  \/ \E u \in ClerkIds : CreateCategory(u, ([Body EXCEPT !.name = JText("Gym")]), TRUE)

SpecMe == Init /\ [][NextMe]_vars

\* the request of transaction t read no user, and the user was inserted by
\* another request before this one inserts
ReadBeforeInsert(t) ==
  txn[t].pc = "selected" /\ txn[t].user = NoUser /\ txn[t].req.user \in users

\* C30: when two first-time requests for the same Clerk user id both read
\* "no user" before either inserts, there is one user row and one set of ten
\* default categories, and the request that inserts second returns that user
\* without an error as well
C30_ConcurrentFirstRequestsBothSucceed ==
  [][\A t \in TxnIds :
       (ReadBeforeInsert(t) /\ txn'[t].pc = "idle") =>
          /\ resp'.status = 200 /\ resp'.rows = {txn[t].req.user}
          /\ users' = users
          /\ Cardinality({c \in categories' : c.user_id = txn[t].req.user /\ c.is_default})
               = Len(DefaultCategories)]_vars

====
